---- MODULE Spec2Model ----
(***************************************************************************)
(* A model of the auditlog package: the signed event chain (Event.digest,  *)
(* Event.Verify), the SQL store (storeEvent, storeError, loadEvent, ...),  *)
(* the chain verifier run by New, the Logger engine (logEvent, the worker  *)
(* processIncoming/processEvent, Start, Stop) and the certifier.           *)
(*                                                                         *)
(* Text and byte strings are sequences of byte values 0..255.  SHA-256 is  *)
(* taken as collision free: a digest is the byte string fed to the hash.   *)
(* ECDSA is taken as an ideal signature scheme: every successful Sign      *)
(* call yields a fresh signature, whose DER encoding is one token >=       *)
(* SigBase of the byte string it occurs in, and `signed` remembers which   *)
(* key signed which digest; ecdsa.Verify accepts exactly those.            *)
(***************************************************************************)
EXTENDS Integers, Sequences, FiniteSets, TLC

\* ---------------------------------------------------------------- bounds
NumProducers == 2
MaxCalls == 2
MaxDrafts == 3
MaxNew == 3
MaxSignFail == 1
MaxStoreFail == 1

MaxTamper == 2

MaxCertify == 1

MaxCount == 2

MaxChain == 3
\* Error events stored next to the events of a chain.
MaxErrors == 2

\* ------------------------------------------------------ program constants
QueueCap == 16
levelUnknown == 0
levelDebug == 1
levelInfo == 2
levelWarning == 3
levelError == 4
levelCritical == 5
SigBase == 256

\* ------------------------------------------------------------------ text
\* "UNKNOWN", "DEBUG", "INFO", "WARNING", "ERROR", "CRITICAL" as bytes.
levelStrings(level) ==
    CASE level = levelDebug    -> <<68, 69, 66, 85, 71>>
      [] level = levelInfo     -> <<73, 78, 70, 79>>
      [] level = levelWarning  -> <<87, 65, 82, 78, 73, 78, 71>>
      [] level = levelError    -> <<69, 82, 82, 79, 82>>
      [] level = levelCritical -> <<67, 82, 73, 84, 73, 67, 65, 76>>
      [] OTHER                 -> <<85, 78, 75, 78, 79, 87, 78>>

\* "signature: " and "marshal signature: ", the prefixes of an error message.
PrefixSignature == <<115, 105, 103, 110, 97, 116, 117, 114, 101, 58, 32>>

PrefixMarshal == <<109, 97, 114, 115, 104, 97, 108, 32>> \o PrefixSignature

\* "EOF": err.Error() of a Sign call whose randomness source ran dry.
ErrEOF == <<69, 79, 70>>

\* "ping", the event text of the test actors; "actor<p>", their names.
EventPing == <<112, 105, 110, 103>>

ActorName(p) == <<97, 99, 116, 111, 114, 48 + p>>

\* The one attribute list the producers pass besides nil: {"foo", "bar"}.
AttrFooBar == [Name |-> <<102, 111, 111>>, Value |-> <<98, 97, 114>>]

\* {"test", "123"}, an attribute of TestLogs.
AttrTest123 == [Name |-> <<116, 101, 115, 116>>, Value |-> <<49, 50, 51>>]

\* {"foo", "baz"}: a second attribute named "foo".
AttrFooBaz == [Name |-> <<102, 111, 111>>, Value |-> <<98, 97, 122>>]

\* {"a", "b"} and {"ab", ""}: two attributes with the same bytes.
AttrAB == [Name |-> <<97>>, Value |-> <<98>>]

AttrABEmpty == [Name |-> <<97, 98>>, Value |-> <<>>]

\* "auditlog", "certify", "start", "end": the event Certify logs about itself.
ActorAuditlog == <<97, 117, 100, 105, 116, 108, 111, 103>>

EventCertify == <<99, 101, 114, 116, 105, 102, 121>>

NameStart == <<115, 116, 97, 114, 116>>

NameEnd == <<101, 110, 100>>

\* "18446744073709551615": 2^64 - 1 in decimal.
DecMaxUint64 ==
    <<49, 56, 52, 52, 54, 55, 52, 52, 48, 55, 51, 55, 48, 57, 53, 53, 49, 54,
      49, 53>>

RECURSIVE DecDigits(_)
\* The decimal digits of n >= 0.
DecDigits(n) ==
    IF n < 10 THEN <<48 + n>> ELSE DecDigits(n \div 10) \o <<48 + (n % 10)>>

\* fmt.Sprintf("%d", v) of a uint64; the model writes 2^64 - 1 as -1.
Sprintf(v) == IF v < 0 THEN DecMaxUint64 ELSE DecDigits(v)

Producers == 1..NumProducers

NoSignature == <<>>

\* ------------------------------------------------------------- variables
VARIABLES
    store,      \* the database file: the five tables, as committed
    tx,         \* the transaction's view of the tables (kept, closed, when
                \* storeEvent failed and it was rolled back), or NoTx
    signed,     \* ideal signatures: signed[i] is the key and digest of token SigBase+i
    signer,     \* Logger.signer
    listener,   \* Logger.listener: "nil" or "chan"
    chan,       \* the channel made by Start: its buffer and whether it is closed
    lastSignature, \* Logger.lastSignature
    counter,    \* Logger.counter
    db,         \* Logger.db: "nil", "open" or "closed" (closed handle, field not cleared)
    lock,       \* Logger.lock: "free" or the name of its holder
    senders,    \* the goroutines `go l.logEvent(...)` that have not finished
    closes,     \* per wait channel: how often close(wait) has run
    wpc,        \* the worker goroutine's position
    cur,        \* the event the worker holds (processEvent's ev), or NoEvent
    pc,         \* each producer's position: "idle" or "waiting" (on <-wait)
    waitingOn,  \* the draft a waiting producer waits for
    calls,      \* submissions each producer has made
    cpc,        \* the owner task's position: New, Start, Stop, New, ...
    news,       \* New calls made so far
    newErr,     \* the error the last New returned, or NoErr
    reports,    \* per failed New: its error, the serial its loop stopped at, the tables read
    tampers,    \* edits made to the database file from outside
    cert,       \* the owner's call of Certify: its position, arguments and result
    probe,      \* an event signed and an event verified outside the engine
    halt,       \* "none", or "panicked": a goroutine panicked, the process is ending
    nextId,     \* drafts created so far
    signFails,  \* Sign / Marshal failures injected so far
    storeFails, \* store failures injected so far
    fate,       \* per draft: what became of it
    serialOf,   \* per draft: the serial it was committed under
    before,     \* per draft: the synchronous drafts whose calls had returned when its call began
    retLog,     \* per returned synchronous call: the draft's fate at the moment of return
    counted,    \* the calls of Count made so far and the value the last one returned
    enq         \* the drafts sent on the listener, in the order they entered the queue

vars == <<store, tx, signed, signer, listener, chan, lastSignature, counter, db,
          lock, senders, closes, wpc, cur, pc, waitingOn, calls, cpc, news,
          newErr, reports, tampers, cert, probe,
          halt, nextId, signFails, storeFails, fate,
          serialOf, before,
          retLog, counted, enq>>

\* ------------------------------------------------- event model and digest
RECURSIVE AttrBytes(_)
\* The loop of Event.digest over ev.Attributes: name then value, in order.
AttrBytes(attrs) ==
    IF attrs = <<>> THEN <<>>
    ELSE Head(attrs).Name \o Head(attrs).Value \o AttrBytes(Tail(attrs))

\* binary.Write(h, binary.BigEndian, int64(v)): eight bytes, for 0 <= v < 2^31.
Be64(v) ==
    <<0, 0, 0, 0, (v \div 16777216) % 256, (v \div 65536) % 256,
      (v \div 256) % 256, v % 256>>

\* Event.Digest of event.go, which writes neither the serial nor received.
digest_NoSerial(ev) ==
    Be64(ev.When) \o ev.Level \o ev.Actor \o ev.Event
      \o AttrBytes(ev.Attributes) \o ev.Signature

\* Event.digest: the bytes written to the hash.
digest(ev) ==
    Be64(ev.Serial) \o Be64(ev.When) \o Be64(ev.Received)
      \o ev.Level \o ev.Actor \o ev.Event
      \o AttrBytes(ev.Attributes)
      \o (IF Len(ev.Signature) # 0 THEN ev.Signature ELSE <<>>)

\* asn1.Unmarshal(sig, &signature) succeeds with nothing remaining: sig is
\* exactly one DER token.
asn1Unmarshal(sig) == Len(sig) = 1 /\ sig[1] >= SigBase

\* ecdsa.Verify(pub, d, r, s) for the signature token t, over the
\* signatures sg made so far.
ecdsaVerify(sg, pub, d, t) ==
    /\ t - SigBase \in 1..Len(sg)
    /\ sg[t - SigBase] = [key |-> pub, digest |-> d]

\* Event.Verify(signer, prev), over the signatures sg.
VerifyIn(sg, ev, pub, prev) ==
    LET sig == ev.Signature
        d == digest([ev EXCEPT !.Signature = prev])
    IN  /\ asn1Unmarshal(sig)
        /\ ecdsaVerify(sg, pub, d, sig[1])

Verify(ev, pub, prev) == VerifyIn(signed, ev, pub, prev)

\* An Event.Verify that puts the signature back only after it has decoded.
VerifyLeaves_Late(ev, prev) ==
    IF asn1Unmarshal(ev.Signature) THEN ev ELSE [ev EXCEPT !.Signature = prev]

\* The event after Event.Verify(signer, prev): sig := ev.Signature,
\* ev.Signature = prev, the digest, ev.Signature = sig, and then the decoding
\* and the check, which do not write to ev.
VerifyLeaves(ev, prev) ==
    LET sig == ev.Signature
        hashed == [ev EXCEPT !.Signature = prev]
    IN  [hashed EXCEPT !.Signature = sig]

\* ------------------------------------------------------------- the store
NoTx == [open |-> FALSE]

\* A Rollback that leaves the rows of the transaction in the tables.
Rollback_Keep(t, written) == written

\* tx.Rollback(): the tables are what they were at db.Begin, whatever the
\* statements of the transaction have written.
Rollback(t, written) == t

EmptyTables ==
    [events |-> {}, attributes |-> {}, error_events |-> <<>>,
     error_attributes |-> {}, errors |-> <<>>]

NoErr == "nil"

ErrNoRows == "sql: no rows in result set"

errAuditFailure == "auditlog: failed to verify audit chain"

ErrStore == "store failure"

Min(a, b) == IF a < b THEN a ELSE b

\* storeEvent: the INSERT of the event row, then one INSERT per attribute with
\* its position.  failAt = k > 0 makes the k-th statement fail; the event row
\* also fails on a duplicate primary key.  The rows of the statements before
\* the failing one are written.
storeEvent(t, ev, failAt) ==
    LET row == [id |-> ev.Serial, timestamp |-> ev.When, received |-> ev.Received,
                level |-> ev.Level, actor |-> ev.Actor, event |-> ev.Event,
                signature |-> ev.Signature]
        n == Len(ev.Attributes)
        written == IF failAt = 0 THEN n ELSE Min(failAt - 2, n)
        rows == {[name |-> ev.Attributes[i].Name, value |-> ev.Attributes[i].Value,
                  event |-> ev.Serial, position |-> i - 1] : i \in 1..written}
    IN  IF failAt = 1 \/ \E r \in t.events : r.id = ev.Serial
        THEN [err |-> ErrStore, t |-> t]
        ELSE [err |-> IF failAt \in 2..(n + 1) THEN ErrStore ELSE NoErr,
              t |-> [t EXCEPT !.events = @ \cup {row},
                              !.attributes = @ \cup rows]]

\* storeError: INSERT INTO error_events, SELECT last_insert_rowid(),
\* INSERT INTO errors, then one INSERT INTO error_attributes per attribute,
\* keyed by the error event's row id.  failAt as in storeEvent.
storeError(t, errEv, failAt) ==
    LET ev == errEv.Event
        eventID == Len(t.error_events) + 1
        row == [id |-> eventID, serial |-> ev.Serial, timestamp |-> ev.When,
                received |-> ev.Received, level |-> ev.Level,
                actor |-> ev.Actor, event |-> ev.Event]
        msg == [timestamp |-> errEv.When, event |-> eventID,
                message |-> errEv.Message]
        n == Len(ev.Attributes)
        written == IF failAt = 0 THEN n ELSE Min(failAt - 4, n)
        rows == {[name |-> ev.Attributes[i].Name, value |-> ev.Attributes[i].Value,
                  event |-> eventID, position |-> i - 1] : i \in 1..written}
        t1 == [t EXCEPT !.error_events = Append(@, row)]
        t3 == [t1 EXCEPT !.errors = Append(@, msg)]
    IN  IF failAt = 1 THEN [err |-> ErrStore, t |-> t]
        ELSE IF failAt \in 2..3 THEN [err |-> ErrStore, t |-> t1]
        ELSE [err |-> IF failAt \in 4..(n + 3) THEN ErrStore ELSE NoErr,
              t |-> [t3 EXCEPT !.error_attributes = @ \cup rows]]

\* countEvents: SELECT count(*) FROM events.
countEvents(t) == Cardinality(t.events)

\* getSignature: SELECT signature FROM events WHERE id=?; no row is an error
\* and a nil signature.
getSignature(t, serial) ==
    IF \E r \in t.events : r.id = serial
    THEN [err |-> NoErr, sig |-> (CHOOSE r \in t.events : r.id = serial).signature]
    ELSE [err |-> ErrNoRows, sig |-> NoSignature]

RECURSIVE SortByPosition(_)
\* An ORDER BY position that puts the last position first.
SortByPosition_Desc(rows) ==
    IF rows = {} THEN <<>>
    ELSE LET r == CHOOSE x \in rows : \A y \in rows : x.position >= y.position
         IN  <<[Name |-> r.name, Value |-> r.value]>>
               \o SortByPosition(rows \ {r})

\* ORDER BY position over a set of attribute rows.
SortByPosition(rows) ==
    IF rows = {} THEN <<>>
    ELSE LET r == CHOOSE x \in rows : \A y \in rows : x.position <= y.position
         IN  <<[Name |-> r.name, Value |-> r.value]>> \o SortByPosition(rows \ {r})

\* loadAttributes: SELECT name, value FROM attributes WHERE event = ?
\* ORDER BY position.
loadAttributes(t, serial) ==
    SortByPosition({r \in t.attributes : r.event = serial})

\* The Event a row of the events table scans into, with its attributes.
RowEvent(t, r) ==
    [Serial |-> r.id, When |-> r.timestamp, Received |-> r.received,
     Level |-> r.level, Actor |-> r.actor, Event |-> r.event,
     Attributes |-> loadAttributes(t, r.id), Signature |-> r.signature,
     wait |-> 0, id |-> 0]

\* loadEvent: SELECT * FROM events WHERE id=?, then loadAttributes.
loadEvent(t, serial) ==
    IF \E r \in t.events : r.id = serial
    THEN [err |-> NoErr, ev |-> RowEvent(t, CHOOSE r \in t.events : r.id = serial)]
    ELSE [err |-> ErrNoRows, ev |-> <<>>]

RECURSIVE RowsAscending(_, _)
\* The rows of a primary-key range scan, which SQLite walks in key order.
RowsAscending(t, rows) ==
    IF rows = {} THEN <<>>
    ELSE LET r == CHOOSE x \in rows : \A y \in rows : x.id <= y.id
         IN  <<RowEvent(t, r)>> \o RowsAscending(t, rows \ {r})

\* A loadEvents whose range leaves out its end.
loadEvents_Exclusive(t, start, end) ==
    RowsAscending(t, {r \in t.events : r.id >= start /\ r.id < end})

\* loadEvents: SELECT * FROM events WHERE id >= ? AND id <= ?.
loadEvents(t, start, end) ==
    RowsAscending(t, {r \in t.events : r.id >= start /\ r.id <= end})

\* loadErrorAttributes: SELECT name, value FROM error_attributes
\* WHERE event = ? ORDER BY position, the parameter being ev.Serial.
loadErrorAttributes(t, serial) ==
    SortByPosition({r \in t.error_attributes : r.event = serial})

\* The first row of SELECT timestamp, message FROM errors WHERE event=?.
ErrorsRow(t, eventID) ==
    LET hits == {i \in 1..Len(t.errors) : t.errors[i].event = eventID}
    IN  IF hits = {} THEN [err |-> ErrNoRows]
        ELSE LET i == CHOOSE j \in hits : \A k \in hits : j <= k
             IN  [err |-> NoErr, When |-> t.errors[i].timestamp,
                  Message |-> t.errors[i].message]

\* The ErrorEvent loadErrors makes of a row of error_events: the row
\* scanned into an Event, loadErrorAttributes(db, &ev), and the errors row
\* of eventID.
ErrorRowEvent(t, row) ==
    LET m == ErrorsRow(t, row.id)
    IN  IF m.err # NoErr THEN [err |-> m.err]
        ELSE [err |-> NoErr,
              ev |-> [When |-> m.When, Message |-> m.Message,
                      Event |-> [Serial |-> row.serial, When |-> row.timestamp,
                                 Received |-> row.received, Level |-> row.level,
                                 Actor |-> row.actor, Event |-> row.event,
                                 Attributes |->
                                     loadErrorAttributes(t, row.serial),
                                 Signature |-> NoSignature, wait |-> 0,
                                 id |-> 0]]]

\* loadErrors: SELECT * FROM error_events WHERE serial >= ? AND serial <= ?,
\* whose rows SQLite walks in rowid order; each row is made an ErrorEvent
\* and appended; an error at any row returns nil events.
loadErrors(t, start, end) ==
    LET InRange(row) == row.serial >= start /\ row.serial <= end
        rows == SelectSeq(t.error_events, InRange)
        evs == [k \in 1..Len(rows) |-> ErrorRowEvent(t, rows[k])]
        bad == {k \in 1..Len(rows) : evs[k].err # NoErr}
    IN  IF bad # {}
        THEN [err |-> evs[CHOOSE k \in bad : \A j \in bad : k <= j].err,
              events |-> <<>>]
        ELSE [err |-> NoErr, events |-> [k \in 1..Len(rows) |-> evs[k].ev]]

\* ------------------------------------------------------ the chain verifier
\* A verifyEvent that takes the event's own stored signature for the one
\* before it.
verifyEvent_OwnSignature(sg, t, pub, serial) ==
    LET prev == getSignature(t, serial)
        le == loadEvent(t, serial)
    IN  IF prev.err # NoErr THEN prev.err
        ELSE IF le.err # NoErr THEN le.err
        ELSE IF ~VerifyIn(sg, le.ev, pub, prev.sig) THEN errAuditFailure
        ELSE NoErr

\* Logger.verifyEvent(serial): the error it returns.
verifyEvent(sg, t, pub, serial) ==
    LET prev == IF serial > 0 THEN getSignature(t, serial - 1)
                ELSE [err |-> NoErr, sig |-> NoSignature]
        le == loadEvent(t, serial)
    IN  IF prev.err # NoErr THEN prev.err
        ELSE IF le.err # NoErr THEN le.err
        ELSE IF ~VerifyIn(sg, le.ev, pub, prev.sig) THEN errAuditFailure
        ELSE NoErr

RECURSIVE chainLoop(_, _, _, _, _)
\* The loop of verifyAuditChain from serial i up to n: the serial it stopped
\* at and the error of that serial, or n and no error.
chainLoop(sg, t, pub, i, n) ==
    IF i >= n THEN [at |-> n, err |-> NoErr]
    ELSE LET e == verifyEvent(sg, t, pub, i)
         IN  IF e # NoErr THEN [at |-> i, err |-> e]
             ELSE chainLoop(sg, t, pub, i + 1, n)

\* Logger.verifyAuditChain with l.counter = n: the error returned and the
\* value left in l.lastSignature.  After the loop the code reads the
\* signature of serial n, not n-1, and drops that query's error.
verifyAuditChain(sg, t, pub, n) ==
    LET loop == chainLoop(sg, t, pub, 0, n)
    IN  IF loop.err # NoErr
        THEN [err |-> loop.err, at |-> loop.at, lastSignature |-> NoSignature]
        ELSE [err |-> NoErr, at |-> n, lastSignature |-> getSignature(t, n).sig]

\* ------------------------------------------------------------ the engine
Ids == 1..MaxDrafts

Keys == {"k1"}

NoEvent ==
    [Serial |-> 0, When |-> 0, Received |-> 0, Level |-> <<>>, Actor |-> <<>>,
     Event |-> <<>>, Attributes |-> <<>>, Signature |-> NoSignature,
     wait |-> 0, id |-> 0]

\* No call of Certify so far.
NoCert ==
    [pc |-> "idle", calls |-> 0, start |-> 0, req |-> 0, end |-> 0, id |-> 0,
     held |-> 0, quiet |-> FALSE, err |-> NoErr, doc |-> <<>>,
     locked |-> FALSE, wait |-> 0]

\* A Lock that never waits, as for a processEvent and a Stop that take no
\* lock.
LockFree_NoLock == TRUE

\* l.lock.Lock() can return: the mutex is not held.
LockFree == lock = "free"

\* A Logger has been returned by New and is what the producers call.
HaveLogger == cpc \in {"built", "running", "stopping", "closing", "stopped"}

\* The owner task is not inside a call of Certify: New, Start, Stop and
\* Certify are called one after another by the one task (as the tests do).
OwnerFree == cert.pc \in {"idle", "done"}

\* No panic so far.  After a panic the deferred calls have run and the
\* runtime is ending the process: of the other goroutines' steps only a
\* producer's return from <-wait (SyncReturn) and Count are followed.
Running == halt = "none"

\* No Logger has been made.
NoLogger ==
    /\ signer = "none"
    /\ listener = "nil"
    /\ chan = [q |-> <<>>, closed |-> FALSE]
    /\ db = "nil"
    /\ wpc = "none"
    /\ cpc = "none"
    /\ news = 0

\* No Logger has been made, and the database file is new.
InitLogger == NoLogger /\ store = EmptyTables

\* What no task has touched yet: no transaction, no signature, no draft,
\* no call.
InitTasks ==
    /\ tx = NoTx
    /\ lastSignature = NoSignature
    /\ counter = 0
    /\ lock = "free"
    /\ senders = {}
    /\ closes = [i \in Ids |-> 0]
    /\ cur = NoEvent
    /\ pc = [p \in Producers |-> "idle"]
    /\ waitingOn = [p \in Producers |-> 0]
    /\ calls = [p \in Producers |-> 0]
    /\ newErr = NoErr
    /\ reports = {}
    /\ tampers = 0
    /\ cert = NoCert
    /\ Running
    /\ nextId = 0
    /\ signFails = 0
    /\ storeFails = 0
    /\ fate = [i \in Ids |-> "none"]
    /\ serialOf = [i \in Ids |-> -1]
    /\ before = [i \in Ids |-> {}]
    /\ retLog = [i \in Ids |-> "none"]
    /\ counted = [calls |-> 0, value |-> 0]
    /\ enq = <<>>

\* The program before its first New.
InitEngine == InitLogger /\ InitTasks /\ signed = <<>>

\* No event has been signed or verified outside the engine.
NoProbe ==
    [stage |-> "none", e |-> NoEvent, prev |-> NoSignature,
     forged |-> NoEvent, ok |-> FALSE, doc |-> <<>>, cl |-> <<>>,
     start |-> 0, end |-> 0, events |-> <<>>, errs |-> <<>>,
     errors |-> <<>>, err |-> NoErr, arg |-> NoEvent, alt |-> <<>>,
     okAlt |-> FALSE]

Init == InitEngine /\ probe = NoProbe

\* What the actions of one group leave alone.
storeVars == <<store, tx, signed>>

loggerVars == <<signer, listener, chan, lastSignature, counter, db, lock>>

workerVars == <<wpc, cur>>

producerVars == <<pc, waitingOn, calls>>

ownerVars == <<cpc, news, newErr, reports, tampers>>

faultVars == <<signFails, storeFails>>

\* The worker of a stopped Logger can do nothing more to the store or to a
\* later Logger: it has returned, or it blocks for ever on the nil listener.
WorkerGone == wpc \in {"none", "exited", "leaked"}

\* The body of New(cd, signer): setupDB, countEvents, verifyAuditChain.
Construct(k) ==
    /\ Running
    /\ OwnerFree
    /\ news < MaxNew
    /\ LET n == countEvents(store)
           r == verifyAuditChain(signed, store, k, n)
       IN  /\ signer' = k
           /\ db' = "open"
           /\ counter' = n
           /\ lastSignature' = r.lastSignature
           /\ newErr' = r.err
           /\ reports' = IF r.err = NoErr THEN reports
                         ELSE reports \cup {[err |-> r.err, at |-> r.at, t |-> store]}
           /\ cpc' = IF r.err = NoErr THEN "built" ELSE "failed"
    /\ news' = news + 1
    /\ listener' = "nil"
    /\ lock' = "free"
    /\ senders' = {}
    /\ wpc' = "none"
    /\ UNCHANGED <<counted, enq, cert, probe, storeVars, chan, closes, cur, producerVars, tampers, halt,
                   nextId, faultVars, fate, serialOf, before, retLog>>

\* The first New of the program (TestLogger).
New(k) ==
    /\ cpc = "none"
    /\ Construct(k)

\* New after Stop has returned, on the same store (TestLoad).  The
\* goroutines left over from the stopped Logger keep pointing at it; the
\* step is taken once they can no longer move (senders blocked on its nil
\* listener are dropped with it).
Reload(k) ==
    /\ cpc = "stopped"
    /\ WorkerGone
    /\ \A g \in senders : g.st = "blocked"
    /\ Construct(k)

\* New called again after a New that failed.
Retry(k) ==
    /\ cpc = "failed"
    /\ Construct(k)

\* What an edit of the database file leaves in the row of an event: another
\* actor, or no signature.
TamperedRow(r, field) ==
    IF field = "actor" THEN [r EXCEPT !.actor = <<120>>]
    ELSE [r EXCEPT !.signature = NoSignature]

\* Someone edits the row of one event in the database file while no Logger
\* has it open.
Tamper(serial, field) ==
    /\ Running
    /\ cpc \in {"stopped", "failed"}
    /\ WorkerGone
    /\ tampers < MaxTamper
    /\ \E r \in store.events :
          /\ r.id = serial
          /\ TamperedRow(r, field) # r
          /\ store' = [store EXCEPT !.events = (@ \ {r}) \cup {TamperedRow(r, field)}]
    /\ tampers' = tampers + 1
    /\ UNCHANGED <<counted, enq, cert, probe, tx, signed, loggerVars, senders, closes, workerVars,
                   producerVars, cpc, news, newErr, reports, halt, nextId,
                   faultVars, fate, serialOf, before, retLog>>

\* Logger.Start: make the channel, start the worker.
Start ==
    /\ Running
    /\ OwnerFree
    /\ cpc = "built"
    /\ listener' = "chan"
    /\ chan' = [q |-> <<>>, closed |-> FALSE]
    /\ wpc' = "loop"
    /\ cpc' = "running"
    /\ UNCHANGED <<counted, enq, cert, probe, storeVars, signer, lastSignature, counter, db, lock, senders,
                   closes, cur, producerVars, news, newErr, reports, tampers, halt, nextId,
                   faultVars, fate, serialOf, before, retLog>>

\* Logger.Stop, the polling loop: len(l.listener) == 0 ends it.
StopWait ==
    /\ Running
    /\ OwnerFree
    /\ cpc = "running"
    /\ Len(chan.q) = 0
    /\ cpc' = "stopping"
    /\ UNCHANGED <<counted, enq, cert, probe, storeVars, loggerVars, senders, closes, workerVars,
                   producerVars, news, newErr, reports, tampers, halt, nextId, faultVars, fate,
                   serialOf, before, retLog>>

\* Logger.Stop: l.lock.Lock(); close(l.listener).
StopClose ==
    /\ Running
    /\ cpc = "stopping"
    /\ LockFree
    /\ lock' = "stop"
    /\ chan' = [chan EXCEPT !.closed = TRUE]
    /\ cpc' = "closing"
    /\ UNCHANGED <<counted, enq, cert, probe, storeVars, signer, listener, lastSignature, counter, db,
                   senders, closes, workerVars, producerVars, news, newErr, reports, tampers,
                   halt, nextId, faultVars, fate, serialOf, before, retLog>>

\* Logger.Stop: l.listener = nil; l.db.Close(); l.db = nil; l.lock.Unlock().
StopFinish ==
    /\ Running
    /\ cpc = "closing"
    /\ listener' = "nil"
    /\ db' = "nil"
    /\ lock' = "free"
    /\ cpc' = "stopped"
    /\ UNCHANGED <<counted, enq, cert, probe, storeVars, signer, chan, lastSignature, counter, senders,
                   closes, workerVars, producerVars, news, newErr, reports, tampers, halt,
                   nextId, faultVars, fate, serialOf, before, retLog>>

\* Logger.Stop called on a Logger that Stop has already returned from:
\* len(l.listener) of the nil channel is 0, the lock is taken, and
\* close(l.listener) of the nil channel panics with the lock held.
StopAgain ==
    /\ Running
    /\ OwnerFree
    /\ cpc = "stopped"
    /\ LockFree
    /\ lock' = "stop"
    /\ halt' = "panicked"
    /\ cpc' = "crashed"
    /\ UNCHANGED <<counted, enq, cert, probe, storeVars, signer, listener, chan, lastSignature, counter,
                   db, senders, closes, workerVars, producerVars, news, newErr, reports,
                   tampers, nextId, faultVars, fate, serialOf, before, retLog>>

\* Logger.Count: Lock, return l.counter, the deferred Unlock.  The process
\* of a panicking goroutine is still running while its deferred calls run,
\* so Count can also take the lock a panicking processEvent has released.
Count ==
    /\ HaveLogger
    /\ LockFree
    /\ counted.calls < MaxCount
    /\ counted' = [calls |-> counted.calls + 1, value |-> counter]
    /\ UNCHANGED <<enq, cert, probe, storeVars, loggerVars, senders, closes, workerVars,
                   producerVars, ownerVars, halt, nextId, faultVars, fate, serialOf,
                   before, retLog>>

\* ---------------------------------------------------------- submissions
\* time.Now().UnixNano(): a clock that advances between the constructions of
\* a Logger (no step of the engine depends on a timestamp).
Now == news

\* A ready that answers true whatever the listener is.
ready_Always == TRUE

\* Logger.ready.
ready == listener # "nil"

\* The synchronous drafts whose calls have returned.
Returned == {i \in Ids : retLog[i] # "none"}

\* The goroutine of `go l.logEvent(when, level, actor, event, attributes, wait)`.
Sender(id, level, actor, event, attributes, wait) ==
    [id |-> id, level |-> level, actor |-> actor, event |-> event,
     attributes |-> attributes, wait |-> wait, st |-> "start", ev |-> NoEvent]

\* InfoSync, WarningSync, ErrorSync, CriticalSync called by producer p on a
\* ready Logger: make the wait channel, start logEvent, go on to <-wait.
CallSync(p, level, attributes) ==
    /\ Running /\ HaveLogger
    /\ pc[p] = "idle"
    /\ calls[p] < MaxCalls
    /\ nextId < MaxDrafts
    /\ ready
    /\ LET id == nextId + 1
       IN  /\ senders' = senders \cup
                  {Sender(id, level, ActorName(p), EventPing, attributes, id)}
           /\ pc' = [pc EXCEPT ![p] = "waiting"]
           /\ waitingOn' = [waitingOn EXCEPT ![p] = id]
           /\ fate' = [fate EXCEPT ![id] = "spawned"]
           /\ before' = [before EXCEPT ![id] = Returned]
           /\ nextId' = id
    /\ calls' = [calls EXCEPT ![p] = @ + 1]
    /\ UNCHANGED <<counted, enq, cert, probe, storeVars, loggerVars, closes, workerVars, ownerVars, halt,
                   faultVars, serialOf, retLog>>

\* Debug, Info, Warning, Error called by producer p on a ready Logger: start
\* logEvent without a wait channel and return.
CallAsync(p, level, attributes) ==
    /\ Running /\ HaveLogger
    /\ pc[p] = "idle"
    /\ calls[p] < MaxCalls
    /\ nextId < MaxDrafts
    /\ ready
    /\ LET id == nextId + 1
       IN  /\ senders' = senders \cup
                  {Sender(id, level, ActorName(p), EventPing, attributes, 0)}
           /\ fate' = [fate EXCEPT ![id] = "spawned"]
           /\ before' = [before EXCEPT ![id] = Returned]
           /\ nextId' = id
    /\ calls' = [calls EXCEPT ![p] = @ + 1]
    /\ UNCHANGED <<counted, enq, cert, probe, storeVars, loggerVars, closes, workerVars, pc, waitingOn,
                   ownerVars, halt, faultVars, serialOf, retLog>>

\* Any submission form called while the Logger is not ready: `if !l.ready()
\* { return }`.
CallNotReady(p) ==
    /\ Running /\ HaveLogger
    /\ pc[p] = "idle"
    /\ calls[p] < MaxCalls
    /\ ~ready
    /\ calls' = [calls EXCEPT ![p] = @ + 1]
    /\ UNCHANGED <<counted, enq, cert, probe, storeVars, loggerVars, senders, closes, workerVars, pc,
                   waitingOn, ownerVars, halt, nextId, faultVars, fate,
                   serialOf, before, retLog>>

\* `<-wait` can return: the channel has been closed.
WaitReceive(w) == closes[w] > 0

\* The end of a synchronous form: <-wait returns once the channel is closed.
SyncReturn(p) ==
    /\ pc[p] = "waiting"
    /\ WaitReceive(waitingOn[p])
    /\ pc' = [pc EXCEPT ![p] = "idle"]
    /\ waitingOn' = [waitingOn EXCEPT ![p] = 0]
    /\ retLog' = [retLog EXCEPT ![waitingOn[p]] = fate[waitingOn[p]]]
    /\ UNCHANGED <<counted, enq, cert, probe, storeVars, loggerVars, senders, closes, workerVars, calls,
                   ownerVars, halt, nextId, faultVars, fate, serialOf, before>>

\* A logEvent that closes the wait channel whether or not it hands the event
\* to the worker.
logEventClose_Always(g, rdy) ==
    IF g.wait # 0 THEN [closes EXCEPT ![g.wait] = @ + 1] ELSE closes

\* logEvent's `if l.ready() { ... } else { if wait != nil { close(wait) } }`:
\* the wait channels' close counts after the test came out as rdy.
logEventClose(g, rdy) ==
    IF ~rdy /\ g.wait # 0 THEN [closes EXCEPT ![g.wait] = @ + 1] ELSE closes

\* logEvent up to its test of l.ready(): normalise the level, build the
\* Event with When = now; when not ready, close the wait channel and end.
LogEventReady(g) ==
    /\ Running
    /\ g \in senders
    /\ g.st = "start"
    /\ LET ev == [Serial |-> 0, When |-> Now, Received |-> 0,
                  Level |-> levelStrings(g.level), Actor |-> g.actor,
                  Event |-> g.event, Attributes |-> g.attributes,
                  Signature |-> NoSignature, wait |-> g.wait, id |-> g.id]
       IN  IF ready
           THEN /\ senders' = (senders \ {g}) \cup
                       {[g EXCEPT !.st = "send", !.ev = ev]}
                /\ UNCHANGED fate
           ELSE /\ senders' = senders \ {g}
                /\ fate' = [fate EXCEPT ![g.id] = "notready"]
    /\ closes' = logEventClose(g, ready)
    /\ UNCHANGED <<counted, enq, cert, probe, storeVars, loggerVars, workerVars, producerVars, ownerVars,
                   halt, nextId, faultVars, serialOf, before, retLog>>

\* A send that never waits for room in the buffer.
HasRoom_Always(q) == TRUE

\* A send on the channel made by make(chan *Event, 16) can proceed: the
\* buffer holds fewer than 16 events.
HasRoom(q) == Len(q) < QueueCap

\* logEvent's `l.listener <- ev`: a nil channel blocks the goroutine for
\* ever, a closed one panics, an open one takes the event when it has room.
\* (The channel operand is read when the send is taken; within the bounds
\* the buffer never fills, so no send waits across a change of l.listener.)
LogEventSend(g) ==
    /\ Running
    /\ g \in senders
    /\ g.st = "send"
    /\ IF listener = "nil"
       THEN /\ senders' = (senders \ {g}) \cup {[g EXCEPT !.st = "blocked"]}
            /\ fate' = [fate EXCEPT ![g.id] = "stuck"]
            /\ UNCHANGED <<chan, halt, enq>>
       ELSE IF chan.closed
       THEN /\ senders' = senders \ {g}
            /\ fate' = [fate EXCEPT ![g.id] = "sendpanic"]
            /\ halt' = "panicked"
            /\ UNCHANGED <<chan, enq>>
       ELSE /\ HasRoom(chan.q)
            /\ chan' = [chan EXCEPT !.q = Append(@, g.ev)]
            /\ enq' = Append(enq, g.id)
            /\ senders' = senders \ {g}
            /\ fate' = [fate EXCEPT ![g.id] = "queued"]
            /\ UNCHANGED halt
    /\ UNCHANGED <<counted, cert, probe, storeVars, signer, listener, lastSignature, counter, db,
                   lock, closes, workerVars, producerVars, ownerVars, nextId,
                   faultVars, serialOf, before, retLog>>

\* ---------------------------------------------------------- certification
\* A continuation byte of UTF-8.
Cont(c) == c \in 128..191

\* The length of the valid UTF-8 encoding at the head of b, or 0
\* (utf8.DecodeRuneInString returning RuneError with size 1).
Utf8Len(b) ==
    LET c == b[1]
        n == Len(b)
    IN  IF c < 128 THEN 1
        ELSE IF c \in 194..223 /\ n >= 2 /\ Cont(b[2]) THEN 2
        ELSE IF /\ c \in 224..239 /\ n >= 3 /\ Cont(b[2]) /\ Cont(b[3])
                /\ (c = 224 => b[2] >= 160) /\ (c = 237 => b[2] <= 159) THEN 3
        ELSE IF /\ c \in 240..244 /\ n >= 4 /\ Cont(b[2]) /\ Cont(b[3])
                /\ Cont(b[4])
                /\ (c = 240 => b[2] >= 144) /\ (c = 244 => b[2] <= 143) THEN 4
        ELSE 0

RECURSIVE jsonString(_)
\* A Go string through json.Marshal and back through json.Unmarshal: text
\* of ASCII bytes comes back as it is; otherwise each byte that is not part
\* of valid UTF-8 comes back as U+FFFD.
jsonString(b) ==
    IF \A i \in 1..Len(b) : b[i] < 128 THEN b
    ELSE LET n == Utf8Len(b)
         IN  IF n = 0 THEN <<239, 191, 189>> \o jsonString(Tail(b))
             ELSE SubSeq(b, 1, n) \o jsonString(SubSeq(b, n + 1, Len(b)))

\* The JSON object of an Event: the exported fields; wait is not exported.
\* []byte travels as base64, which gives back the same bytes.
jsonEvent(ev) ==
    [Serial |-> ev.Serial, When |-> ev.When, Received |-> ev.Received,
     Level |-> jsonString(ev.Level), Actor |-> jsonString(ev.Actor),
     Event |-> jsonString(ev.Event),
     Attributes |-> [i \in 1..Len(ev.Attributes) |->
                        [Name |-> jsonString(ev.Attributes[i].Name),
                         Value |-> jsonString(ev.Attributes[i].Value)]],
     Signature |-> ev.Signature]

\* json.Marshal(certification); a nil Errors is written as null and read
\* back as a list of no error events.
jsonMarshal(certification) ==
    [when |-> certification.When,
     chain |-> [i \in 1..Len(certification.Chain) |->
                   jsonEvent(certification.Chain[i])],
     errors |-> [i \in 1..Len(certification.Errors) |->
                    [When |-> certification.Errors[i].When,
                     Message |-> jsonString(certification.Errors[i].Message),
                     Event |-> jsonEvent(certification.Errors[i].Event)]],
     public |-> certification.Public]

\* json.Unmarshal(in, &cl): the Certification decoded from a document.
jsonUnmarshal(in) ==
    [When |-> in.when,
     Chain |-> [i \in 1..Len(in.chain) |->
                   [Serial |-> in.chain[i].Serial, When |-> in.chain[i].When,
                    Received |-> in.chain[i].Received,
                    Level |-> in.chain[i].Level, Actor |-> in.chain[i].Actor,
                    Event |-> in.chain[i].Event,
                    Attributes |-> in.chain[i].Attributes,
                    Signature |-> in.chain[i].Signature, wait |-> 0, id |-> 0]],
     Errors |-> in.errors,
     Public |-> in.public]

\* A document that is not JSON, written as a record of its bytes.
NotJSON == [garbage |-> <<123>>]

\* json.Unmarshal(in, &cl) returns no error.
jsonDecodes(in) == "garbage" \notin DOMAIN in

\* A verification that, like VerifyCertifiedLog, does not check the first
\* entry of the chain.
VerifyCertification_NoFirst(sg, in, pub) ==
    IF ~jsonDecodes(in) THEN [ok |-> FALSE, cl |-> <<>>]
    ELSE LET cl == jsonUnmarshal(in)
             n == Len(cl.Chain)
         IN  IF \E i \in 2..n :
                    ~VerifyIn(sg, cl.Chain[i], pub, cl.Chain[i - 1].Signature)
             THEN [ok |-> FALSE, cl |-> <<>>]
             ELSE [ok |-> TRUE, cl |-> cl]

\* A verification that checks the first entry against no previous signature
\* when its serial is 0 or 1.
VerifyCertification_FirstTwo(sg, in, pub) ==
    IF ~jsonDecodes(in) THEN [ok |-> FALSE, cl |-> <<>>]
    ELSE LET cl == jsonUnmarshal(in)
             n == Len(cl.Chain)
         IN  IF /\ n > 0 /\ cl.Chain[1].Serial <= 1
                /\ ~VerifyIn(sg, cl.Chain[1], pub, NoSignature)
             THEN [ok |-> FALSE, cl |-> <<>>]
             ELSE IF \E i \in 2..n :
                        ~VerifyIn(sg, cl.Chain[i], pub, cl.Chain[i - 1].Signature)
             THEN [ok |-> FALSE, cl |-> <<>>]
             ELSE [ok |-> TRUE, cl |-> cl]

\* VerifyCertification(in, signer), over the signatures sg: the decoded
\* certification and true, or nil and false.
VerifyCertification(sg, in, pub) ==
    IF ~jsonDecodes(in) THEN [ok |-> FALSE, cl |-> <<>>]
    ELSE LET cl == jsonUnmarshal(in)
             n == Len(cl.Chain)
         IN  IF /\ n > 0 /\ cl.Chain[1].Serial = 0
                /\ ~VerifyIn(sg, cl.Chain[1], pub, NoSignature)
             THEN [ok |-> FALSE, cl |-> <<>>]
             ELSE IF \E i \in 2..n :
                        ~VerifyIn(sg, cl.Chain[i], pub, cl.Chain[i - 1].Signature)
             THEN [ok |-> FALSE, cl |-> <<>>]
             ELSE [ok |-> TRUE, cl |-> cl]

ErrHighBit == "sql: converting argument: uint64 values with high bit set are not supported"

\* if end <= 0 { end = l.counter - 1 } with the requested end left as it is.
NormaliseEnd_Keep(end, c) == end

\* if end <= 0 { end = l.counter - 1 }: 2^64 - 1, written -1, when the
\* counter is 0.
NormaliseEnd(end, c) == IF end <= 0 THEN c - 1 ELSE end

\* Certify(start, end) up to the <-wait of its InfoSync: end <= 0 becomes
\* l.counter - 1, read without the lock; InfoSync("auditlog", "certify",
\* {start, end}) returns at once when the Logger is not ready.  cert.req,
\* cert.held and cert.quiet record the requested end, the number of stored
\* events and whether nothing else was in flight at the call.
CertifyCall(start, end) ==
    /\ Running /\ HaveLogger
    /\ OwnerFree
    /\ cpc \in {"built", "running", "stopped"}
    /\ cert.calls < MaxCertify
    /\ ready => nextId < MaxDrafts
    /\ LET e == NormaliseEnd(end, counter)
           id == nextId + 1
           attributes == <<[Name |-> NameStart, Value |-> Sprintf(start)],
                           [Name |-> NameEnd, Value |-> Sprintf(e)]>>
           c == [cert EXCEPT !.calls = @ + 1, !.start = start, !.req = end,
                             !.end = e,
                             !.held = countEvents(store),
                             !.quiet = (senders = {} /\ chan.q = <<>>
                                          /\ wpc \in {"loop", "recv"}),
                             !.err = NoErr, !.doc = <<>>]
       IN  IF ready
           THEN /\ senders' = senders \cup
                       {Sender(id, levelInfo, ActorAuditlog, EventCertify,
                               attributes, id)}
                /\ fate' = [fate EXCEPT ![id] = "spawned"]
                /\ before' = [before EXCEPT ![id] = Returned]
                /\ nextId' = id
                /\ cert' = [c EXCEPT !.pc = "waiting", !.id = id]
           ELSE /\ cert' = [c EXCEPT !.pc = "load", !.id = 0]
                /\ UNCHANGED <<senders, fate, before, nextId>>
    /\ UNCHANGED <<counted, enq, probe, storeVars, loggerVars, closes, workerVars, producerVars,
                   ownerVars, halt, faultVars, serialOf, retLog>>

\* Certify: the <-wait of its InfoSync returns.
CertifyWake ==
    /\ cert.pc = "waiting"
    /\ WaitReceive(cert.id)
    /\ cert' = [cert EXCEPT !.pc = "load"]
    /\ retLog' = [retLog EXCEPT ![cert.id] = fate[cert.id]]
    /\ UNCHANGED <<counted, enq, probe, storeVars, loggerVars, senders, closes, workerVars,
                   producerVars, ownerVars, halt, nextId, faultVars, fate,
                   serialOf, before>>

\* Certify after its InfoSync: loadEvents(l.db, start, end) on what is
\* committed (a nil l.db is dereferenced: panic), When, Public, json.Marshal.
\* certification.Errors is never assigned: it stays nil.
CertifyLoad ==
    /\ Running
    /\ cert.pc = "load"
    /\ IF db = "nil"
       THEN /\ halt' = "panicked"
            /\ cert' = [cert EXCEPT !.pc = "panicked"]
       ELSE /\ cert' =
                  IF cert.end < 0
                  THEN [cert EXCEPT !.pc = "done", !.err = ErrHighBit]
                  ELSE [cert EXCEPT
                          !.pc = "done",
                          !.doc = jsonMarshal(
                                    [When |-> Now,
                                     Chain |-> loadEvents(store, cert.start,
                                                          cert.end),
                                     Errors |-> <<>>,
                                     Public |-> signer])]
            /\ UNCHANGED halt
    /\ UNCHANGED <<counted, enq, probe, storeVars, loggerVars, senders, closes, workerVars,
                   producerVars, ownerVars, nextId, faultVars, fate, serialOf,
                   before, retLog>>

\* A certify event logged with InfoSync: the call waits on its wait channel.
InfoWait_Sync(id) == id

\* l.Info("auditlog", "certify", attributes): the wait channel handed to
\* logEvent is nil, and the call waits for nothing.
InfoWait(id) == 0

\* The Certify that holds the lock (certify.go 23-63), up to db.Begin:
\* l.lock.Lock(), the deferred Unlock, end <= 0 becomes l.counter - 1,
\* l.Info("auditlog", "certify", {start, end}), which starts a logEvent
\* goroutine when the Logger is ready and returns.
CertifyLocked(start, end) ==
    /\ Running /\ HaveLogger
    /\ OwnerFree
    /\ cpc \in {"built", "running", "stopped"}
    /\ cert.calls < MaxCertify
    /\ ready => nextId < MaxDrafts
    /\ LockFree
    /\ lock' = "certify"
    /\ LET e == NormaliseEnd(end, counter)
           id == nextId + 1
           attributes == <<[Name |-> NameStart, Value |-> Sprintf(start)],
                           [Name |-> NameEnd, Value |-> Sprintf(e)]>>
           c == [cert EXCEPT !.calls = @ + 1, !.start = start, !.req = end,
                             !.end = e, !.held = countEvents(store),
                             !.quiet = (senders = {} /\ chan.q = <<>>
                                          /\ wpc \in {"loop", "recv"}),
                             !.err = NoErr, !.doc = <<>>, !.locked = TRUE,
                             !.pc = "locked"]
       IN  IF ready
           THEN /\ senders' = senders \cup
                       {Sender(id, levelInfo, ActorAuditlog, EventCertify,
                               attributes, InfoWait(id))}
                /\ fate' = [fate EXCEPT ![id] = "spawned"]
                /\ before' = [before EXCEPT ![id] = Returned]
                /\ nextId' = id
                /\ cert' = [c EXCEPT !.id = id, !.wait = InfoWait(id)]
           ELSE /\ cert' = [c EXCEPT !.id = 0, !.wait = 0]
                /\ UNCHANGED <<senders, fate, before, nextId>>
    /\ UNCHANGED <<counted, enq, probe, storeVars, signer, listener, chan,
                   lastSignature, counter, db, closes, workerVars,
                   producerVars, ownerVars, halt, faultVars, serialOf, retLog>>

\* The Certify that holds the lock, from l.db.Begin() on (a nil l.db is
\* dereferenced: panic): loadEvents(tx, start, end), loadErrors(tx, start,
\* end), When, json.Marshal, the deferred Commit or Rollback and Unlock.
\* This Certification has no Public field.
CertifyLockedLoad ==
    /\ Running
    /\ cert.pc = "locked"
    /\ IF cert.wait = 0 THEN TRUE ELSE WaitReceive(cert.wait)
    /\ lock' = "free"
    /\ IF db = "nil"
       THEN /\ halt' = "panicked"
            /\ cert' = [cert EXCEPT !.pc = "panicked"]
       ELSE /\ cert' =
                  IF cert.end < 0
                  THEN [cert EXCEPT !.pc = "done", !.err = ErrHighBit]
                  ELSE [cert EXCEPT
                          !.pc = "done",
                          !.doc = jsonMarshal(
                                    [When |-> Now,
                                     Chain |-> loadEvents(store, cert.start,
                                                          cert.end),
                                     Errors |-> loadErrors(store, cert.start,
                                                           cert.end).events,
                                     Public |-> "none"])]
            /\ UNCHANGED halt
    /\ UNCHANGED <<counted, enq, probe, storeVars, signer, listener, chan,
                   lastSignature, counter, db, senders, closes, workerVars,
                   producerVars, ownerVars, nextId, faultVars, fate, serialOf,
                   before, retLog>>

\* ------------------------------------------------------------ the worker
\* processIncoming: the operand of `<-l.listener` is read; a nil channel
\* blocks the worker for ever.
WorkerLoop ==
    /\ Running
    /\ wpc = "loop"
    /\ wpc' = IF listener = "nil" THEN "leaked" ELSE "recv"
    /\ UNCHANGED <<counted, enq, cert, probe, storeVars, loggerVars, senders, closes, cur, producerVars,
                   ownerVars, halt, nextId, faultVars, fate, serialOf, before,
                   retLog>>

\* A receive that takes the element sent last.
Receive_Last(q) == [ev |-> q[Len(q)], rest |-> SubSeq(q, 1, Len(q) - 1)]

\* A receive from a buffered channel: the element sent first, and what stays
\* in the buffer.
Receive(q) == [ev |-> Head(q), rest |-> Tail(q)]

\* processIncoming: `ev, ok := <-l.listener`; return when closed and drained.
WorkerRecv ==
    /\ Running
    /\ wpc = "recv"
    /\ IF Len(chan.q) > 0
       THEN /\ cur' = Receive(chan.q).ev
            /\ chan' = [chan EXCEPT !.q = Receive(chan.q).rest]
            /\ wpc' = "got"
            /\ fate' = [fate EXCEPT ![Receive(chan.q).ev.id] = "dequeued"]
       ELSE /\ chan.closed
            /\ wpc' = "exited"
            /\ UNCHANGED <<cur, chan, fate>>
    /\ UNCHANGED <<counted, enq, cert, probe, storeVars, signer, listener, lastSignature, counter, db,
                   lock, senders, closes, producerVars, ownerVars, halt,
                   nextId, faultVars, serialOf, before, retLog>>

\* The statement-failure choices of a store call with n statements: none, or,
\* while failures remain to inject, any one statement.
FailChoices(n) == IF storeFails < MaxStoreFail THEN 0..n ELSE {0}

\* close(ev.wait), when the event has a wait channel.
CloseWait(ev) ==
    IF ev.wait # 0 THEN [closes EXCEPT ![ev.wait] = @ + 1] ELSE closes

\* close(ev.wait) would panic: the channel is closed already.
ClosedAlready(ev) == ev.wait # 0 /\ closes[ev.wait] > 0

\* `go close(ev.wait)` in the place of the defer, as an earlier processEvent
\* had it: the channel is closed while the event is still being processed.
DeferClose_Go(ev) == CloseWait(ev)

\* `if ev.wait != nil { defer close(ev.wait) }`: nothing is closed until
\* processEvent returns or panics.
DeferClose(ev) == closes

\* A reservation that leaves the counter where it was.
ReserveSerial_Keep(c) == c

\* `ev.Serial = l.counter; l.counter++`: the counter after reserving.
ReserveSerial(c) == c + 1

\* An error branch that does not give the serial back.
ReleaseSerial_Keep(c) == c

\* `l.counter--` of the error branches: the counter after releasing.
ReleaseSerial(c) == c - 1

\* processEvent from l.lock.Lock() to the result of ecdsa.Sign and
\* asn1.Marshal.  outcome: "nodb" is taken when l.db == nil (return, nothing
\* deferred but the unlock); "begin" is db.Begin failing (panic before the
\* close of ev.wait is deferred); "sign" and "marshal" are the two failures
\* that lead to an error event; "ok" signs.
ProcBegin(outcome) ==
    /\ Running
    /\ wpc = "got"
    /\ LockFree
    /\ (outcome = "nodb") = (db = "nil")
    /\ outcome = "begin" => storeFails < MaxStoreFail
    /\ outcome \in {"sign", "marshal"} => signFails < MaxSignFail
    /\ LET ev == [cur EXCEPT !.Received = Now, !.Serial = counter]
           d == digest([ev EXCEPT !.Signature = lastSignature])
       IN  CASE outcome = "nodb" ->
                  /\ wpc' = "loop"
                  /\ cur' = NoEvent
                  /\ fate' = [fate EXCEPT ![cur.id] = "dropped"]
                  /\ UNCHANGED <<tx, signed, counter, lock, closes, halt, faultVars>>
             [] outcome = "begin" ->
                  /\ wpc' = "panicked"
                  /\ halt' = "panicked"
                  /\ cur' = [cur EXCEPT !.Received = Now]
                  /\ storeFails' = storeFails + 1
                  /\ fate' = [fate EXCEPT ![cur.id] = "fatal"]
                  /\ UNCHANGED <<tx, signed, counter, lock, closes, signFails>>
             [] outcome = "ok" ->
                  /\ tx' = [open |-> TRUE, t |-> store]
                  /\ counter' = ReserveSerial(counter)
                  /\ closes' = DeferClose(cur)
                  /\ signed' = Append(signed, [key |-> signer, digest |-> d])
                  /\ cur' = [ev EXCEPT !.Signature = <<SigBase + Len(signed) + 1>>]
                  /\ lock' = "worker"
                  /\ wpc' = "signed"
                  /\ fate' = [fate EXCEPT ![cur.id] = "processing"]
                  /\ UNCHANGED <<halt, faultVars>>
             [] OTHER ->
                  /\ tx' = [open |-> TRUE, t |-> store]
                  /\ counter' = ReserveSerial(counter)
                  /\ closes' = DeferClose(cur)
                  /\ cur' = ev
                  /\ lock' = "worker"
                  /\ wpc' = outcome
                  /\ signFails' = signFails + 1
                  /\ fate' = [fate EXCEPT ![cur.id] = "processing"]
                  /\ UNCHANGED <<signed, halt, storeFails>>
    /\ UNCHANGED <<counted, enq, cert, probe, store, signer, listener, chan, lastSignature, db, senders,
                   producerVars, ownerVars, nextId, serialOf, before, retLog>>

\* processEvent, the sign-failure and marshal-failure branches: build the
\* ErrorEvent, storeError(tx, errEv) (on failure tx.Rollback(), l.db.Close(),
\* panic), tx.Commit() with its error dropped, l.counter--, return; the
\* deferred close(ev.wait) and Unlock run on the return and on the panic.
\* failAt = k > 0 fails statement k of storeError; commitOk = FALSE fails the
\* commit.
ProcError(failAt, commitOk) ==
    /\ Running
    /\ wpc \in {"sign", "marshal"}
    /\ failAt \in FailChoices(3 + Len(cur.Attributes))
    /\ ~commitOk => failAt = 0 /\ storeFails < MaxStoreFail
    /\ LET errEv == [When |-> Now,
                     Message |-> (IF wpc = "sign" THEN PrefixSignature
                                  ELSE PrefixMarshal) \o ErrEOF,
                     Event |-> cur]
           r == storeError(tx.t, errEv, failAt)
       IN  IF r.err # NoErr
           THEN /\ db' = "closed"
                /\ wpc' = "panicked"
                /\ halt' = "panicked"
                /\ fate' = [fate EXCEPT ![cur.id] = "fatal"]
                /\ store' = Rollback(store, r.t)
                /\ UNCHANGED <<counter, cur>>
           ELSE /\ store' = IF commitOk THEN r.t ELSE store
                /\ counter' = ReleaseSerial(counter)
                /\ wpc' = IF ClosedAlready(cur) THEN "panicked" ELSE "loop"
                /\ halt' = IF ClosedAlready(cur) THEN "panicked" ELSE halt
                /\ cur' = NoEvent
                /\ fate' = [fate EXCEPT ![cur.id] =
                               IF commitOk THEN "error" ELSE "errorlost"]
                /\ UNCHANGED db
    /\ storeFails' = IF failAt # 0 \/ ~commitOk THEN storeFails + 1 ELSE storeFails
    /\ tx' = NoTx
    /\ closes' = CloseWait(cur)
    /\ lock' = "free"
    /\ UNCHANGED <<counted, enq, cert, probe, signed, signer, listener, chan, lastSignature, senders,
                   producerVars, ownerVars, nextId, signFails, serialOf,
                   before, retLog>>

\* processEvent: storeEvent(tx, ev) (on failure tx.Rollback(), l.db.Close(),
\* panic), then tx.Commit() (on failure panic, with no rollback and no close
\* of the handle).  A panic runs the deferred close(ev.wait) and Unlock.
ProcStore(failAt, commitOk) ==
    /\ Running
    /\ wpc = "signed"
    /\ failAt \in FailChoices(1 + Len(cur.Attributes))
    /\ ~commitOk => failAt = 0 /\ storeFails < MaxStoreFail
    /\ LET r == storeEvent(tx.t, cur, failAt)
       IN  IF r.err # NoErr \/ ~commitOk
           THEN /\ db' = IF r.err # NoErr THEN "closed" ELSE db
                /\ closes' = CloseWait(cur)
                /\ lock' = "free"
                /\ wpc' = "panicked"
                /\ halt' = "panicked"
                /\ storeFails' = IF failAt # 0 \/ ~commitOk THEN storeFails + 1
                                  ELSE storeFails
                /\ fate' = [fate EXCEPT ![cur.id] = "fatal"]
                /\ store' = IF r.err # NoErr THEN Rollback(store, r.t)
                            ELSE store
                /\ tx' = IF r.err # NoErr THEN [open |-> FALSE, t |-> r.t]
                         ELSE NoTx
                /\ UNCHANGED serialOf
           ELSE /\ store' = r.t
                /\ wpc' = "committed"
                /\ fate' = [fate EXCEPT ![cur.id] = "committed"]
                /\ serialOf' = [serialOf EXCEPT ![cur.id] = cur.Serial]
                /\ tx' = NoTx
                /\ UNCHANGED <<db, closes, lock, halt, storeFails>>
    /\ UNCHANGED <<counted, enq, cert, probe, signed, signer, listener, chan, lastSignature, counter,
                   senders, cur, producerVars, ownerVars, nextId, signFails,
                   before, retLog>>

\* processEvent after the commit: l.lastSignature = ev.Signature, the line on
\* the sink, return: the deferred close(ev.wait) and Unlock.
ProcPublish ==
    /\ Running
    /\ wpc = "committed"
    /\ lastSignature' = cur.Signature
    /\ closes' = CloseWait(cur)
    /\ lock' = "free"
    /\ wpc' = IF ClosedAlready(cur) THEN "panicked" ELSE "loop"
    /\ halt' = IF ClosedAlready(cur) THEN "panicked" ELSE halt
    /\ cur' = NoEvent
    /\ UNCHANGED <<counted, enq, cert, probe, storeVars, signer, listener, chan, counter, db, senders,
                   producerVars, ownerVars, nextId, faultVars, fate, serialOf,
                   before, retLog>>

\* The inputs of the submission forms: the test actors pass nil attributes,
\* TestLogs passes a list.
SyncLevels == {levelInfo}

AsyncLevels == {levelWarning}

Attrs(p) == IF p = 1 THEN <<>> ELSE <<AttrFooBar>>

\* The steps of the producers, of their logEvent goroutines and of the owner
\* stopping the Logger.
Clients(ps) ==
    \/ \E p \in ps, level \in SyncLevels : CallSync(p, level, Attrs(p))
    \/ \E p \in ps, level \in AsyncLevels : CallAsync(p, level, Attrs(p))
    \/ \E p \in ps : CallNotReady(p)
    \/ \E p \in ps : SyncReturn(p)
    \/ \E g \in senders : LogEventReady(g)
    \/ \E g \in senders : LogEventSend(g)
    \/ Start
    \/ StopWait
    \/ StopClose
    \/ StopFinish

\* The steps of the worker when the store does not fail.
Worker ==
    \/ WorkerLoop
    \/ WorkerRecv
    \/ \E o \in {"nodb", "ok", "sign"} : ProcBegin(o)
    \/ ProcError(0, TRUE)
    \/ ProcStore(0, TRUE)
    \/ ProcPublish

\* The steps of the worker in which the store fails: db.Begin, a statement of
\* storeError or storeEvent, or tx.Commit.
WorkerStoreFault ==
    \/ ProcBegin("begin")
    \/ \E f \in 1..4 : ProcError(f, TRUE)
    \/ ProcError(0, FALSE)
    \/ \E f \in 1..2 : ProcStore(f, TRUE)
    \/ ProcStore(0, FALSE)

\* The engine under concurrent producers, with signing and store failures.
Next ==
    \/ \E k \in Keys : New(k)
    \/ Clients(Producers)
    \/ Worker
    \/ WorkerStoreFault

Spec == Init /\ [][Next]_vars

\* The engine under concurrent producers, with signing failures and a store
\* that does not fail.
NextLive ==
    \/ \E k \in Keys : New(k)
    \/ Clients(Producers)
    \/ Worker

\* The same under a fair scheduler: the processIncoming goroutine is not
\* starved, and a Stop that holds the lock runs on to its Unlock.
SpecLive ==
    Init /\ [][NextLive]_vars /\ WF_vars(Worker) /\ WF_vars(StopFinish)

\* One producer, signing and store failures, and a task calling Count.
NextCount ==
    \/ \E k \in Keys : New(k)
    \/ Clients({1})
    \/ Worker
    \/ WorkerStoreFault
    \/ Count

SpecCount == Init /\ [][NextCount]_vars

\* The producers of the full-queue runs.
QueueProducers == {1}

\* The event an earlier Warning(actor, "ping", nil) left in the queue.  The
\* drafts of these earlier calls carry id 0: what becomes of them is not
\* followed.
QueuedPing ==
    [Serial |-> 0, When |-> 1, Received |-> 0,
     Level |-> levelStrings(levelWarning), Actor |-> ActorName(1),
     Event |-> EventPing, Attributes |-> <<>>, Signature |-> NoSignature,
     wait |-> 0, id |-> 0]

\* After New on an empty store, Start, and 15 or 16 asynchronous
\* submissions whose logEvent goroutines have all sent their events before
\* the worker goroutine took its first step.
InitQueue ==
    /\ InitTasks
    /\ probe = NoProbe
    /\ signed = <<>>
    /\ store = EmptyTables
    /\ signer = "k1"
    /\ listener = "chan"
    /\ db = "open"
    /\ wpc = "loop"
    /\ cpc = "running"
    /\ news = 1
    /\ \E n \in {QueueCap - 1, QueueCap} :
          chan = [q |-> [i \in 1..n |-> QueuedPing], closed |-> FALSE]

\* One producer on a Logger whose queue is full or one short of it.
NextQueue ==
    \/ \E p \in QueueProducers, level \in SyncLevels : CallSync(p, level, Attrs(p))
    \/ \E p \in QueueProducers, level \in AsyncLevels : CallAsync(p, level, Attrs(p))
    \/ \E p \in QueueProducers : CallNotReady(p)
    \/ \E p \in QueueProducers : SyncReturn(p)
    \/ \E g \in senders : LogEventReady(g)
    \/ \E g \in senders : LogEventSend(g)
    \/ StopWait
    \/ StopClose
    \/ StopFinish
    \/ Worker

SpecQueue == InitQueue /\ [][NextQueue]_vars

\* One producer, signing and marshalling failures, and the store reloaded
\* after Stop.
NextReload ==
    \/ \E k \in Keys : New(k)
    \/ \E k \in Keys : Reload(k)
    \/ Clients({1})
    \/ Worker
    \/ ProcBegin("marshal")

SpecReload == Init /\ [][NextReload]_vars

\* The same, with the database file edited between Stop and New.
NextTamper ==
    \/ NextReload
    \/ \E k \in Keys : Retry(k)
    \/ \E serial \in 0..(MaxDrafts - 1), field \in {"actor", "signature"} :
          Tamper(serial, field)

SpecTamper == Init /\ [][NextTamper]_vars

\* The arguments Certify is called with.
CertStarts == {0}

CertEnds == {0, 1}

\* The attribute lists the signature check is tried on: none, one, and each
\* order of two.
ProbeAttributes ==
    {<<>>, <<AttrFooBar>>,
     <<AttrTest123, AttrFooBar>>, <<AttrFooBar, AttrTest123>>,
     <<AttrAB, AttrABEmpty>>, <<AttrABEmpty, AttrAB>>}

\* The events the signature check is tried on: two values for each field.
ProbeEvents ==
    {[Serial |-> serial, When |-> when, Received |-> received,
      Level |-> levelStrings(level), Actor |-> actor, Event |-> event,
      Attributes |-> attributes, Signature |-> NoSignature, wait |-> 0,
      id |-> 0] :
        serial \in {0, 1}, when \in {1, 2}, received \in {2, 3},
        level \in {levelInfo, levelWarning},
        actor \in {<<97>>, <<97, 98>>}, event \in {<<99>>, <<98, 99>>},
        attributes \in ProbeAttributes}

\* The previous signatures: none, or some earlier signature.
ProbePrevs == {NoSignature, <<SigBase>>}

\* An event and the signature before it are given.
InitVerify ==
    /\ InitEngine
    /\ \E e \in ProbeEvents, prev \in ProbePrevs :
          probe = [NoProbe EXCEPT !.stage = "input", !.e = e, !.prev = prev]

\* The signing of processEvent, on the given event: the digest is taken with
\* the previous signature in ev.Signature, and the signature replaces it.
ProbeSign ==
    /\ probe.stage = "input"
    /\ LET d == digest([probe.e EXCEPT !.Signature = probe.prev])
       IN  /\ signed' = Append(signed, [key |-> "k1", digest |-> d])
           /\ probe' = [probe EXCEPT
                          !.stage = "signed",
                          !.e = [@ EXCEPT !.Signature = <<SigBase + Len(signed) + 1>>]]
    /\ UNCHANGED <<counted, enq, store, tx, loggerVars, senders, closes, workerVars,
                   producerVars, ownerVars, cert, halt, nextId, faultVars,
                   fate, serialOf, before, retLog>>

\* Event.Verify(signer, prev) called on an event e2 that carries the
\* signature of the signed event.  probe.arg is the event as it is passed,
\* probe.forged the event as the call leaves it.
ProbeVerify(e2) ==
    /\ probe.stage = "signed"
    /\ LET forged == [e2 EXCEPT !.Signature = probe.e.Signature]
       IN  probe' = [probe EXCEPT
                       !.stage = "verified",
                       !.arg = forged,
                       !.forged = VerifyLeaves(forged, probe.prev),
                       !.ok = Verify(forged, "k1", probe.prev)]
    /\ UNCHANGED <<counted, enq, storeVars, loggerVars, senders, closes, workerVars,
                   producerVars, ownerVars, cert, halt, nextId, faultVars,
                   fate, serialOf, before, retLog>>

\* Event.Verify(signer, prev) called on the given event before it is
\* signed: its empty signature does not decode.
ProbeVerifyUnsigned ==
    /\ probe.stage = "input"
    /\ probe' = [probe EXCEPT
                   !.stage = "verified",
                   !.arg = probe.e,
                   !.forged = VerifyLeaves(probe.e, probe.prev),
                   !.ok = Verify(probe.e, "k1", probe.prev)]
    /\ UNCHANGED <<counted, enq, storeVars, loggerVars, senders, closes, workerVars,
                   producerVars, ownerVars, cert, halt, nextId, faultVars,
                   fate, serialOf, before, retLog>>

NextVerify ==
    \/ ProbeSign
    \/ ProbeVerifyUnsigned
    \/ \E e2 \in ProbeEvents : ProbeVerify(e2)

\* Signing one event and verifying another under its signature.
SpecVerify == InitVerify /\ [][NextVerify]_vars

\* The event with serial n of a chain of pings, before it is signed.
DocDraft(n) ==
    [Serial |-> n, When |-> 1, Received |-> 1,
     Level |-> levelStrings(levelInfo), Actor |-> ActorName(1),
     Event |-> EventPing, Attributes |-> <<>>, Signature |-> NoSignature,
     wait |-> 0, id |-> 0]

\* The chain of MaxChain events as processEvent signs them under "k1": event
\* n carries token SigBase + n + 1, made on its digest over the signature
\* of event n - 1.
DocEvent(n) == [DocDraft(n) EXCEPT !.Signature = <<SigBase + n + 1>>]

DocSigned ==
    [i \in 1..MaxChain |->
        [key |-> "k1",
         digest |-> digest([DocDraft(i - 1) EXCEPT !.Signature =
                              IF i = 1 THEN NoSignature
                              ELSE DocEvent(i - 2).Signature])]]

\* The entries the documents are made of: the events of the chain, event 0
\* without a signature, and event 1 with another actor.
DocEntries ==
    {DocEvent(n) : n \in 0..(MaxChain - 1)}
      \cup {DocDraft(0), [DocEvent(1) EXCEPT !.Actor = <<120>>]}

\* The documents VerifyCertification is tried on: what is not JSON, and the
\* encoding of every chain of up to MaxChain entries.
Docs ==
    {NotJSON} \cup
    {jsonMarshal([When |-> 1, Chain |-> chain, Errors |-> <<>>,
                  Public |-> "k1"]) :
        chain \in UNION {[1..n -> DocEntries] : n \in 0..MaxChain}}

\* A document is given; the key "k1" has signed the events of the chain
\* (in a Logger of some other process: VerifyCertification needs none).
InitDoc ==
    /\ InitLogger /\ InitTasks
    /\ signed = DocSigned
    /\ \E d \in Docs : probe = [NoProbe EXCEPT !.stage = "doc", !.doc = d]

\* VerifyCertification(in, signer) called on the document.
VerifyDoc ==
    /\ probe.stage = "doc"
    /\ LET r == VerifyCertification(signed, probe.doc, "k1")
       IN  probe' = [probe EXCEPT !.stage = "docverified", !.ok = r.ok,
                                  !.cl = r.cl]
    /\ UNCHANGED <<counted, enq, storeVars, loggerVars, senders, closes, workerVars,
                   producerVars, ownerVars, cert, halt, nextId, faultVars,
                   fate, serialOf, before, retLog>>

NextDoc == VerifyDoc

\* Verifying a given document.
SpecDoc == InitDoc /\ [][NextDoc]_vars

\* What a first entry f of a document can be changed into without touching
\* its signature or making its serial 0: each other field changed, and all.
FirstVariants(f) ==
    {[f EXCEPT !.Serial = 3], [f EXCEPT !.When = 2], [f EXCEPT !.Received = 2],
     [f EXCEPT !.Level = levelStrings(levelWarning)],
     [f EXCEPT !.Actor = <<121>>], [f EXCEPT !.Event = <<121>>],
     [f EXCEPT !.Attributes = <<AttrFooBar>>],
     [f EXCEPT !.Serial = 3, !.When = 2, !.Received = 2,
               !.Level = levelStrings(levelWarning), !.Actor = <<121>>,
               !.Event = <<121>>, !.Attributes = <<AttrFooBar>>]}

\* Two documents are given that differ only in fields other than the
\* signature of their first entry, whose serial is not 0.
InitPair ==
    /\ InitLogger /\ InitTasks
    /\ signed = DocSigned
    /\ \E d \in Docs \ {NotJSON} :
          /\ Len(d.chain) > 0
          /\ d.chain[1].Serial # 0
          /\ \E v \in FirstVariants(d.chain[1]) :
                probe = [NoProbe EXCEPT !.stage = "pair", !.doc = d,
                                        !.alt = [d EXCEPT !.chain[1] = v]]

\* VerifyCertification(in, signer) called on each of the two documents.
VerifyPair ==
    /\ probe.stage = "pair"
    /\ probe' = [probe EXCEPT
                   !.stage = "pairverified",
                   !.ok = VerifyCertification(signed, probe.doc, "k1").ok,
                   !.okAlt = VerifyCertification(signed, probe.alt, "k1").ok]
    /\ UNCHANGED <<counted, enq, storeVars, loggerVars, senders, closes, workerVars,
                   producerVars, ownerVars, cert, halt, nextId, faultVars,
                   fate, serialOf, before, retLog>>

NextPair == VerifyPair

\* Verifying two given documents.
SpecPair == InitPair /\ [][NextPair]_vars

\* The attribute lists of the stored events: none, and each order of two.
LoadAttrs ==
    {<<>>, <<AttrTest123, AttrFooBar>>, <<AttrFooBar, AttrTest123>>}

RECURSIVE Committed(_)
\* The tables and the signatures after processEvent has committed one event
\* for each attribute list of as, serials 0 .. Len(as) - 1, under "k1".
Committed(as) ==
    IF as = <<>> THEN [t |-> EmptyTables, sg |-> <<>>, last |-> NoSignature]
    ELSE LET c == Committed(SubSeq(as, 1, Len(as) - 1))
             ev == [DocDraft(Len(as) - 1) EXCEPT !.Attributes = as[Len(as)]]
             d == digest([ev EXCEPT !.Signature = c.last])
             sig == <<SigBase + Len(as)>>
         IN  [t |-> storeEvent(c.t, [ev EXCEPT !.Signature = sig], 0).t,
              sg |-> Append(c.sg, [key |-> "k1", digest |-> d]),
              last |-> sig]

\* A database file holding up to MaxChain committed events, opened by a
\* process that has made no Logger, and a range to load.
InitLoad ==
    /\ NoLogger /\ InitTasks
    /\ \E as \in UNION {[1..n -> LoadAttrs] : n \in 0..MaxChain} :
          /\ store = Committed(as).t
          /\ signed = Committed(as).sg
    /\ \E start \in 0..MaxChain, end \in 0..MaxChain :
          probe = [NoProbe EXCEPT !.stage = "range", !.start = start,
                                  !.end = end]

\* loadEvents(db, start, end) called on the file.
LoadRange ==
    /\ probe.stage = "range"
    /\ probe' = [probe EXCEPT
                   !.stage = "loaded",
                   !.events = loadEvents(store, probe.start, probe.end)]
    /\ UNCHANGED <<counted, enq, storeVars, loggerVars, senders, closes, workerVars,
                   producerVars, ownerVars, cert, halt, nextId, faultVars,
                   fate, serialOf, before, retLog>>

NextLoad == LoadRange

\* Loading a range of events from a given database file.
SpecLoad == InitLoad /\ [][NextLoad]_vars

\* The attribute lists given to the store: none, and each order of two
\* attributes that have the same name.
StoreAttrs ==
    {<<>>, <<AttrFooBar, AttrFooBaz>>, <<AttrFooBaz, AttrFooBar>>}

\* A new database file, opened by a process that has made no Logger.
\* probe.events and probe.errs list what has been stored.
InitStore ==
    /\ InitEngine
    /\ probe = [NoProbe EXCEPT !.stage = "store"]

StoreFrame ==
    UNCHANGED <<counted, enq, tx, signed, loggerVars, senders, closes,
                workerVars, producerVars, ownerVars, cert, halt, nextId,
                faultVars, fate, serialOf, before, retLog>>

\* storeEvent(db, ev) and COMMIT for the event with the next serial.
StoreInsert(attributes) ==
    /\ probe.stage = "store"
    /\ countEvents(store) < MaxChain
    /\ LET n == countEvents(store)
           ev == [DocDraft(n) EXCEPT !.When = n + 1, !.Received = n + 2,
                                     !.Attributes = attributes,
                                     !.Signature = <<SigBase + n + 1>>]
       IN  /\ store' = storeEvent(store, ev, 0).t
           /\ probe' = [probe EXCEPT !.stage = "store",
                                     !.events = Append(@, ev)]
    /\ StoreFrame

\* storeError(db, errEv) and COMMIT for a draft that took the next serial
\* and could not be signed (the first) or whose signature could not be
\* marshalled (the others).
StoreInsertError(attributes) ==
    /\ probe.stage = "store"
    /\ Len(store.error_events) < MaxErrors
    /\ LET n == countEvents(store)
           k == Len(store.error_events)
           errEv == [When |-> 10 + k,
                     Message |-> (IF k = 0 THEN PrefixSignature
                                  ELSE PrefixMarshal) \o ErrEOF,
                     Event |-> [DocDraft(n) EXCEPT !.When = k + 1,
                                                   !.Received = k + 2,
                                                   !.Attributes = attributes]]
       IN  /\ store' = storeError(store, errEv, 0).t
           /\ probe' = [probe EXCEPT !.stage = "store",
                                     !.errs = Append(@, errEv)]
    /\ StoreFrame

\* loadEvent(db, serial).
StoreLoadEvent(serial) ==
    /\ probe.stage = "store"
    /\ LET r == loadEvent(store, serial)
       IN  probe' = [probe EXCEPT !.stage = "event", !.start = serial,
                                  !.err = r.err,
                                  !.e = IF r.err = NoErr THEN r.ev
                                        ELSE NoEvent]
    /\ UNCHANGED store
    /\ StoreFrame

\* loadErrors(db, start, end).
StoreLoadErrors(start, end) ==
    /\ probe.stage = "store"
    /\ LET r == loadErrors(store, start, end)
       IN  probe' = [probe EXCEPT !.stage = "errors", !.start = start,
                                  !.end = end, !.err = r.err,
                                  !.errors = r.events]
    /\ UNCHANGED store
    /\ StoreFrame

NextStore ==
    \/ \E a \in StoreAttrs : StoreInsert(a)
    \/ \E a \in StoreAttrs : StoreInsertError(a)
    \/ \E serial \in 0..(MaxChain - 1) : StoreLoadEvent(serial)
    \/ \E start \in 0..MaxChain, end \in 0..MaxChain :
          StoreLoadErrors(start, end)

\* The functions of the store applied to one database file.
SpecStore == InitStore /\ [][NextStore]_vars

\* One producer, reloads, and the owner calling Certify.
NextCertify ==
    \/ NextReload
    \/ \E start \in CertStarts, end \in CertEnds : CertifyCall(start, end)
    \/ CertifyWake
    \/ CertifyLoad
    \/ StopAgain

SpecCertify == Init /\ [][NextCertify]_vars

\* The steps of the logEvent goroutines.
LogEvents == \E g \in senders : LogEventReady(g) \/ LogEventSend(g)

\* One producer of synchronous events and the owner calling either Certify,
\* with signing failures and a store that does not fail.
NextCertifyLive ==
    \/ \E k \in Keys : New(k)
    \/ Start
    \/ \E level \in SyncLevels : CallSync(1, level, Attrs(1))
    \/ SyncReturn(1)
    \/ LogEvents
    \/ StopWait
    \/ StopClose
    \/ StopFinish
    \/ Worker
    \/ \E start \in CertStarts, end \in CertEnds : CertifyCall(start, end)
    \/ CertifyWake
    \/ CertifyLoad
    \/ \E start \in CertStarts, end \in CertEnds : CertifyLocked(start, end)
    \/ CertifyLockedLoad

\* The steps of the goroutines that a call of Certify depends on: the
\* worker, the logEvent goroutines and the task inside Certify.
CertifySteps ==
    Worker \/ LogEvents \/ CertifyWake \/ CertifyLoad \/ CertifyLockedLoad

\* The same under a fair scheduler: while one of these goroutines can run,
\* one of them does.
SpecCertifyLive ==
    Init /\ [][NextCertifyLive]_vars /\ WF_vars(CertifySteps)

\* ------------------------------------------------------------- properties
\* The serials of the committed events.
Serials == {r.id : r \in store.events}

\* The stored chain verifies: event 0 against the empty signature, event i
\* against the stored signature of event i-1.
ChainVerifies ==
    chainLoop(signed, store, "k1", 0, countEvents(store)).err = NoErr

\* C1: in every reachable state of the store, whatever the interleaving of
\* submissions that commit or fail at signing, the serials of the committed
\* events are exactly 0..N-1 for N committed events: none twice, none skipped.
C1_SerialsDense == Serials = 0..(Cardinality(store.events) - 1)

\* Two events are committed after a draft failed at signing with serial 0.
C1_Witness ==
    /\ Cardinality(store.events) >= 2
    /\ \E i \in 1..Len(store.error_events) : store.error_events[i].serial = 0

\* C2: after submissions, Stop, New on the same store with the same key and
\* further submissions, committed event 0 verifies against the empty
\* signature and every committed event i > 0 against the stored signature
\* of event i-1.
C2_ChainVerifiesAcrossReload ==
    \A r \in store.events :
        Verify(RowEvent(store, r), "k1",
               IF r.id = 0 THEN NoSignature
               ELSE getSignature(store, r.id - 1).sig)

C5_ReloadRestoresTail ==
    (cpc = "built" /\ news >= 2 /\ countEvents(store) >= 1) =>
        /\ newErr = NoErr
        /\ counter = countEvents(store)
        /\ lastSignature = getSignature(store, countEvents(store) - 1).sig

\* The serials of the tables t whose event does not verify against the
\* signature stored for its predecessor.
BadSerials(t) ==
    {r.id : r \in {x \in t.events :
        ~Verify(RowEvent(t, x), "k1",
                IF x.id = 0 THEN NoSignature
                ELSE getSignature(t, x.id - 1).sig)}}

\* The least of a non-empty set of serials.
Least(S) == CHOOSE i \in S : \A j \in S : i <= j

ChainSerials(chain) == [i \in 1..Len(chain) |-> chain[i].Serial]

\* C9: on a running Logger holding N >= 1 committed events and with nothing
\* in flight, Certify(0, N-1) and Certify(0, 0), whose end becomes
\* counter-1, return without error a document that VerifyCertification
\* accepts under the Logger's public key; its chain is the events 0..N-1 in
\* ascending order, and the "certify" event the call logged is not in it.
C9_CertifyVerifies ==
    (/\ cert.pc = "done" /\ cpc = "running"
     /\ cert.quiet /\ cert.held >= 1
     /\ cert.start = 0 /\ cert.end = cert.held - 1) =>
        /\ cert.err = NoErr
        /\ VerifyCertification(signed, cert.doc, signer).ok
        /\ ChainSerials(cert.doc.chain) = [i \in 1..cert.held |-> i - 1]
        /\ \A i \in 1..Len(cert.doc.chain) :
              cert.doc.chain[i].Serial # serialOf[cert.id]

\* C10: an event that carries the signature of a signed event e but differs
\* from e in serial, when, received, level, actor, event or an attribute's
\* name or value fails Verify against e's previous signature (the digest
\* being a collision-free hash of the bytes the code writes to it).
C10_ChangedEventFailsVerify ==
    (probe.stage = "verified" /\ probe.forged # probe.e) => ~probe.ok

\* Every draft made so far was a synchronous one whose call has returned,
\* on a Logger started once and not stopped, with no failure injected.
AllReturnedNoFailure ==
    /\ cpc = "running"
    /\ signFails = 0 /\ storeFails = 0
    /\ \A p \in Producers : pc[p] = "idle"
    /\ \A i \in 1..nextId : retLog[i] # "none"

\* C7: concurrent producers make synchronous submissions on a fresh running
\* Logger and nothing fails; once all have returned, count() equals the
\* number of submissions made (P*n), the committed serials are pairwise
\* distinct, and every committed event verifies against its predecessor.
C7_ConcurrentProducers ==
    AllReturnedNoFailure =>
        /\ counter = nextId
        /\ Cardinality(store.events) = nextId
        /\ Cardinality(Serials) = nextId
        /\ ChainVerifies

\* Both producers have submitted, MaxDrafts submissions in all have
\* returned, and as many events are committed.
C7_Witness ==
    /\ AllReturnedNoFailure
    /\ nextId = MaxDrafts
    /\ \A p \in Producers : calls[p] >= 1
    /\ counter = MaxDrafts

\* C8: if submissions A and B both commit and the synchronous call of A
\* returned before the call of B (synchronous or not) began, A's serial is
\* below B's.
C8_ReturnOrdersSerials ==
    \A a, b \in Ids :
        (a \in before[b] /\ serialOf[a] >= 0 /\ serialOf[b] >= 0)
          => serialOf[a] < serialOf[b]

\* Two committed synchronous submissions, one returned before the other began.
C8_Witness ==
    \E a, b \in Ids :
        /\ a \in before[b]
        /\ retLog[a] = "committed" /\ retLog[b] = "committed"

\* The stored event a Certify call logged, as loadEvent returns it.
CertifyRow == loadEvent(store, serialOf[cert.id]).ev

\* C11: on a Logger constructed once over an empty store, started and not
\* stopped, with no signing failure, once k synchronous submissions and c
\* Certify calls have all returned, Count() is k + c: every draft, the
\* "certify" event of each Certify call included, is a committed event.  The
\* certify event has actor "auditlog", event "certify" and the attributes
\* start and end in that order, end being counter - 1 as read at the call
\* when the requested end was <= 0.
C11_CountIsSubmissionsPlusCertify ==
    (/\ news = 1 /\ AllReturnedNoFailure
     /\ cert.pc \in {"idle", "done"}) =>
        /\ counter = nextId
        /\ countEvents(store) = nextId
        /\ cert.id # 0 =>
              /\ CertifyRow.Actor = ActorAuditlog
              /\ CertifyRow.Event = EventCertify
              /\ CertifyRow.Level = levelStrings(levelInfo)
              /\ CertifyRow.Attributes =
                    <<[Name |-> NameStart, Value |-> Sprintf(cert.start)],
                      [Name |-> NameEnd, Value |-> Sprintf(cert.end)]>>
              /\ cert.quiet =>
                    cert.end = IF cert.req <= 0 THEN cert.held - 1 ELSE cert.req

\* Two submissions and then a Certify call with end 0 have returned.
C11_Witness ==
    /\ news = 1 /\ AllReturnedNoFailure
    /\ cert.pc = "done" /\ cert.quiet /\ cert.req = 0 /\ cert.held = 2
    /\ counter = 3

\* C12: on a running Logger whose store holds no events (counter = 0) and
\* with nothing in flight, Certify(0, 0) returns without error a document
\* whose chain is empty and that VerifyCertification accepts.
C12_CertifyEmptyStore ==
    (/\ cert.pc = "done" /\ cert.id # 0
     /\ cert.quiet /\ cert.held = 0
     /\ cert.start = 0 /\ cert.req = 0) =>
        /\ cert.err = NoErr
        /\ cert.doc.chain = <<>>
        /\ VerifyCertification(signed, cert.doc, signer).ok

\* C13: a submission of any form called while the Logger is not ready (its
\* listener is nil: before Start, or after Stop has returned) returns
\* without blocking and without starting a logEvent, and leaves the store,
\* the open transaction, the counter, the tail signature, the queue and
\* every wait channel as they were: nothing is persisted and no caller is
\* left waiting.
C13_NotReadyIsNoOp ==
    [][\A p \in Producers :
          (calls'[p] # calls[p] /\ listener = "nil") =>
              /\ pc'[p] = "idle"
              /\ UNCHANGED <<storeVars, counter, lastSignature, chan,
                             senders, closes, nextId, fate>>]_vars

\* After one committed submission and Stop, a producer has made a call that
\* found the Logger not ready.
C13_Witness ==
    /\ cpc = "stopped" /\ countEvents(store) = 1 /\ nextId = 1
    /\ \E p \in Producers : calls[p] = 2 /\ pc[p] = "idle"

\* Event f is event e with the attributes at two positions, which hold
\* different (name, value) pairs, exchanged.
IsSwap(e, f) ==
    \E i, j \in 1..Len(e.Attributes) :
        /\ i # j
        /\ e.Attributes[i] # e.Attributes[j]
        /\ f = [e EXCEPT !.Attributes =
                    [@ EXCEPT ![i] = e.Attributes[j], ![j] = e.Attributes[i]]]

\* C14: an event that carries the signature of a signed event e and is e
\* with two attributes holding different (name, value) pairs exchanged
\* fails Verify against e's previous signature.
C14_SwappedAttributesFailVerify ==
    (probe.stage = "verified" /\ IsSwap(probe.e, probe.forged)) => ~probe.ok

\* The signature of the committed event with the greatest serial in the
\* tables t, nil when there is none.
LastCommittedSignature(t) ==
    IF t.events = {} THEN NoSignature
    ELSE (CHOOSE r \in t.events : \A x \in t.events : x.id <= r.id).signature

\* C15: a Logger's lastSignature changes only in the step after a successful
\* tx.Commit() of an event's transaction, and becomes that event's
\* signature; in every state where processEvent's transaction is open, or
\* has been abandoned on a signing failure or a store failure, lastSignature
\* is the signature of the last committed event.
C15_TailAdvancesAfterCommit ==
    /\ []((HaveLogger /\ (tx.open \/ wpc \in {"sign", "marshal", "panicked"}))
            => lastSignature = LastCommittedSignature(store))
    /\ [][(lastSignature' # lastSignature /\ news' = news) =>
              /\ wpc = "committed"
              /\ lastSignature' = cur.Signature
              /\ lastSignature' = LastCommittedSignature(store)]_vars

\* C16: no wait channel is closed twice, whatever the interleaving of
\* logEvent's not-ready branch, processEvent's deferred close on its commit,
\* error-event and panic paths, and Stop: a second close would panic.
C16_WaitClosedAtMostOnce ==
    \A i \in Ids : closes[i] <= 1

\* Stop has returned, and three wait channels have been closed, one on each
\* of the commit path, the error-event path and the not-ready path.
C16_Witness ==
    /\ cpc = "stopped"
    /\ \E i, j, k \in Ids :
          /\ fate[i] = "committed" /\ closes[i] = 1
          /\ fate[j] = "error" /\ closes[j] = 1
          /\ fate[k] = "notready" /\ closes[k] = 1

\* C17: when processEvent, having taken the lock, finds l.db nil because
\* Stop ran after the draft was dequeued, the wait channel of a synchronous
\* draft is closed by the time the draft is discarded, so that its producer
\* can return.
C17_DiscardReleasesWait ==
    \A p \in Producers :
        (pc[p] = "waiting" /\ fate[waitingOn[p]] = "dropped") =>
            closes[waitingOn[p]] >= 1

\* C18: under fair scheduling of the worker, every draft that has been put
\* in the listener queue is eventually a committed event or has an error
\* event stored for it, whatever the other producers and Stop do.
C18_EnqueuedIsSettled ==
    \A i \in Ids :
        (fate[i] = "queued") ~> (fate[i] \in {"committed", "error"})

\* C19: in the step in which Stop closes the listener, the queue is empty
\* and the worker holds no draft it has received and not yet processed:
\* every draft sent on the listener before that step has been processed.
C19_StopClosesDrainedQueue ==
    [][(~chan.closed /\ chan'.closed) =>
          /\ chan.q = <<>>
          /\ wpc # "got"
          /\ \A i \in Ids : fate[i] \notin {"queued", "dequeued"}]_vars

\* C20: after Stop has returned, Certify(start, end) and a second Stop
\* complete without a panic (and, like Count, leave the store, the counter
\* and lastSignature as they were).
C20_AfterStopNoCrash ==
    /\ cert.pc # "panicked"
    /\ cpc # "crashed"

\* C21: when storeEvent fails (the event row or an attribute row) or
\* tx.Commit() fails, the engine is in a terminal failed state: the
\* transaction is rolled back, the database handle is closed, lastSignature
\* is not advanced, the store holds no row of the failed event, and no
\* later step changes the store.
C21_StoreFailureIsTerminal ==
    [][/\ (wpc = "signed" /\ wpc' = "panicked") =>
              /\ halt' = "panicked"
              /\ ~tx'.open
              /\ db' = "closed"
              /\ lastSignature' = lastSignature
              /\ store' = store
       /\ halt = "panicked" => store' = store]_vars

\* C22: when storing the error event fails at any step (the error_events
\* row, the errors row, an error_attributes row, or the commit of that
\* transaction), the engine is in the terminal failed state: it does not
\* release the reserved serial and go on to the next draft while the error
\* event is missing from the store.
C22_ErrorStoreFailureIsTerminal ==
    [][(/\ wpc \in {"sign", "marshal"} /\ wpc' # wpc
        /\ store'.error_events = store.error_events) =>
           /\ halt' = "panicked"
           /\ counter' = counter]_vars

\* C23: the step of processEvent that records an error event, after a
\* signing or a signature-encoding failure, leaves the events table, the
\* attributes table and lastSignature as they were and the counter at the
\* value it had before the draft was taken up (the serial the draft was
\* given); only error_events, errors and error_attributes grow.
C23_ErrorEventFrame ==
    [][(wpc \in {"sign", "marshal"} /\ wpc' = "loop") =>
          /\ store'.events = store.events
          /\ store'.attributes = store.attributes
          /\ lastSignature' = lastSignature
          /\ counter' = cur.Serial
          /\ counter' = countEvents(store')
          /\ store.error_attributes \subseteq store'.error_attributes
          /\ Len(store'.error_events) >= Len(store.error_events)
          /\ SubSeq(store'.error_events, 1, Len(store.error_events))
                = store.error_events
          /\ SubSeq(store'.errors, 1, Len(store.errors)) = store.errors]_vars

\* An error event with an attribute has been recorded after one event was
\* committed, and the worker is back at its loop.
C23_Witness ==
    /\ wpc = "loop" /\ countEvents(store) = 1 /\ counter = 1
    /\ Len(store.error_events) = 1 /\ store.error_events[1].serial = 1
    /\ store.error_attributes # {}

\* The worker is inside processEvent with a transaction begun.
InProcessEvent == wpc \in {"signed", "sign", "marshal", "committed"}

\* C24: at most one draft is being processed at any time, and Stop's
\* teardown (close of the listener, Close of the database, l.db = nil) never
\* runs while processEvent has a draft's transaction open: the lock is held
\* by the worker exactly while it processes a draft, and by Stop exactly
\* during the teardown.
C24_ProcessAndStopExclusive ==
    /\ Cardinality({i \in Ids : fate[i] = "processing"}) <= 1
    /\ (lock = "worker") = InProcessEvent
    /\ (lock = "stop") = (cpc = "closing")
    /\ tx.open => lock = "worker"
    /\ cpc = "closing" => ~tx.open /\ ~InProcessEvent

\* Stop is in its teardown while the worker holds a draft it has received
\* and waits for the lock.
C24_Witness ==
    /\ cpc = "closing" /\ lock = "stop" /\ wpc = "got"

\* The place of draft i in the order in which drafts entered the queue.
EnqueuedAt(i) == CHOOSE k \in 1..Len(enq) : enq[k] = i

\* C26: of two drafts that are both committed, the one that entered the
\* listener queue first has the smaller serial: processIncoming receives in
\* FIFO order and processEvent gives out serials in the order it is called.
C26_QueueOrderIsSerialOrder ==
    \A i, j \in Ids :
        (/\ serialOf[i] >= 0 /\ serialOf[j] >= 0
         /\ EnqueuedAt(i) < EnqueuedAt(j)) => serialOf[i] < serialOf[j]

\* The draft created second entered the queue first, and both are committed.
C26_Witness ==
    /\ Len(enq) >= 2 /\ enq[1] = 2 /\ enq[2] = 1
    /\ serialOf[2] = 0 /\ serialOf[1] = 1

C27_QueueBounded ==
    /\ [](Len(chan.q) <= QueueCap)
    /\ [][Len(chan'.q) > Len(chan.q) => Len(chan.q) < QueueCap]_vars

\* The queue is full, the last event in it was sent by a call of this run,
\* and another logEvent waits at its send.
C27_Witness ==
    /\ Len(chan.q) = QueueCap
    /\ chan.q[QueueCap].id # 0
    /\ \E g \in senders : g.st = "send"

\* C28: an asynchronous submission made on a ready Logger whose queue holds
\* 16 events returns only once its event has been put in the queue, so the
\* events submitted and not yet received by the worker are at most 16 plus
\* one for each producer.
C28_AsyncWaitsForSlot ==
    /\ [][\A p \in Producers :
             (/\ calls'[p] # calls[p] /\ listener # "nil"
              /\ Len(chan.q) = QueueCap /\ pc'[p] = "idle") =>
                 fate'[nextId'] = "queued"]_vars
    /\ [](Len(chan.q) + Cardinality(senders)
            <= QueueCap + Cardinality(QueueProducers))

\* C29: VerifyCertification(doc, pk) returns the decoded certification and
\* true if and only if doc decodes and (a) the chain is empty, or its first
\* entry's serial is not 0, or its first entry verifies against the empty
\* previous signature, and (b) every entry after the first verifies against
\* the signature of the entry before it; otherwise it returns nil and false.
C29_VerifyCertificationIff ==
    probe.stage = "docverified" =>
        IF ~jsonDecodes(probe.doc) THEN ~probe.ok /\ probe.cl = <<>>
        ELSE LET cl == jsonUnmarshal(probe.doc)
                 n == Len(cl.Chain)
                 a == \/ n = 0
                      \/ cl.Chain[1].Serial # 0
                      \/ Verify(cl.Chain[1], "k1", NoSignature)
                 b == \A i \in 1..n :
                         i >= 2 => Verify(cl.Chain[i], "k1",
                                          cl.Chain[i - 1].Signature)
             IN  /\ probe.ok = (a /\ b)
                 /\ IF probe.ok THEN probe.cl = cl ELSE probe.cl = <<>>

\* A document whose chain starts at serial 1 with an entry that does not
\* verify against the empty signature has been accepted.
C29_Witness ==
    /\ probe.stage = "docverified" /\ probe.ok
    /\ Len(probe.cl.Chain) = 2 /\ probe.cl.Chain[1].Serial = 1
    /\ ~Verify(probe.cl.Chain[1], "k1", NoSignature)

SameStored(a, b) ==
    /\ a.Serial = b.Serial /\ a.When = b.When /\ a.Received = b.Received
    /\ a.Level = b.Level /\ a.Actor = b.Actor /\ a.Event = b.Event
    /\ a.Signature = b.Signature /\ a.Attributes = b.Attributes

\* C31: loadEvent(serial) of an event that storeEvent has stored returns it
\* with the same serial, when, received, level, actor, event, signature and
\* attribute sequence, attributes of one name included, whatever events and
\* error events were stored before it and after it.
C31_LoadEventReturnsInserted ==
    (probe.stage = "event" /\ probe.start < Len(probe.events)) =>
        /\ probe.err = NoErr
        /\ SameStored(probe.e, probe.events[probe.start + 1])

\* Event 1, with two attributes named "foo", has been loaded after an
\* error event was stored before it and an event and an error event after.
C31_Witness ==
    /\ probe.stage = "event" /\ probe.start = 1
    /\ Len(probe.events) = 3 /\ Len(probe.errs) = 2
    /\ probe.errs[1].Event.Serial = 0 /\ probe.errs[2].Event.Serial = 3
    /\ probe.e.Attributes = <<AttrFooBaz, AttrFooBar>>

\* C33: loadErrors(start, end) over a range that holds the captured serial
\* of a stored error event returns that error event with its own message,
\* its own when and its own attributes in their stored order, also when
\* serials and error-event ids are the same numbers.
C33_LoadErrorsReturnsOwn ==
    probe.stage = "errors" =>
        \A i \in 1..Len(probe.errs) :
            LET x == probe.errs[i]
            IN  (probe.start <= x.Event.Serial /\ x.Event.Serial <= probe.end) =>
                    /\ probe.err = NoErr
                    /\ \E k \in 1..Len(probe.errors) :
                          /\ probe.errors[k].When = x.When
                          /\ probe.errors[k].Message = x.Message
                          /\ probe.errors[k].Event.Serial = x.Event.Serial
                          /\ probe.errors[k].Event.Attributes = x.Event.Attributes

\* C32: when storeEvent fails, or the commit after it, the store after the
\* failure is the store before the insert began: it holds no event row and
\* no attribute row of that event, also when the failing transaction had
\* written the event row or some attribute rows.
C32_FailedInsertLeavesStore ==
    [][(wpc = "signed" /\ wpc' = "panicked") =>
          /\ store' = store
          /\ \A r \in store'.events : r.id # cur.Serial
          /\ \A a \in store'.attributes : a.event # cur.Serial]_vars

\* storeEvent has failed on the attribute of an event whose row it had
\* written, and the engine has stopped on it.
C32_Witness ==
    /\ halt = "panicked" /\ db = "closed" /\ ~tx.open
    /\ "t" \in DOMAIN tx
    /\ \E r \in tx.t.events : r.id = cur.Serial /\ r \notin store.events
    /\ countEvents(store) >= 1

\* C34: the errors list of the document Certify(start, end) returns holds
\* every stored error event whose captured serial s has start <= s <= end
\* (end as normalised), and no error event whose captured serial is
\* outside that range.
C34_CertifyErrorsInRange ==
    [][(cert.pc = "load" /\ cert'.pc = "done" /\ cert'.err = NoErr) =>
          LET errs == jsonUnmarshal(cert'.doc).Errors
              InRange(serial) == cert.start <= serial /\ serial <= cert.end
          IN  /\ \A i \in 1..Len(store.error_events) :
                    InRange(store.error_events[i].serial) =>
                        \E k \in 1..Len(errs) :
                            /\ errs[k].Event.Serial = store.error_events[i].serial
                            /\ errs[k].Event.When = store.error_events[i].timestamp
              /\ \A k \in 1..Len(errs) : InRange(errs[k].Event.Serial)]_vars

RECURSIVE BigEndian(_, _)
\* The n low bytes of v, most significant first.
BigEndian(v, n) ==
    IF n = 0 THEN <<>> ELSE BigEndian(v \div 256, n - 1) \o <<v % 256>>

BigEndian8(v) == BigEndian(v, 8)

RECURSIVE NamesAndValues(_, _)
\* Name then value of the attributes from position i on.
NamesAndValues(attrs, i) ==
    IF i > Len(attrs) THEN <<>>
    ELSE attrs[i].Name \o attrs[i].Value \o NamesAndValues(attrs, i + 1)

\* C35: the bytes hashed for an event are serial, when, received (eight
\* big-endian bytes each), level, actor, event, name then value of each
\* attribute in order, then the bytes in the signature field (none when it
\* is empty); signing and Verify hash the same bytes, so an event verifies
\* against the signature made on it with the same previous signature.
C35_DigestLayout ==
    (probe.stage \in {"signed", "verified"} /\ signed # <<>>) =>
        /\ signed[Len(signed)].digest =
              BigEndian8(probe.e.Serial) \o BigEndian8(probe.e.When)
                \o BigEndian8(probe.e.Received)
                \o probe.e.Level \o probe.e.Actor \o probe.e.Event
                \o NamesAndValues(probe.e.Attributes, 1) \o probe.prev
        /\ (probe.stage = "verified" /\ probe.forged = probe.e) => probe.ok

\* An event with serial 1 and two attributes, signed over an earlier
\* signature, has been verified against it.
C35_Witness ==
    /\ probe.stage = "verified" /\ probe.forged = probe.e /\ probe.ok
    /\ probe.e.Serial = 1 /\ Len(probe.e.Attributes) = 2
    /\ probe.prev # NoSignature

\* C36: Event.Verify(signer, prev) leaves the event as it was, signature
\* field and every other field, whether it returns true or false, a
\* signature that does not decode included.
C36_VerifyLeavesEvent ==
    probe.stage = "verified" => probe.forged = probe.arg

\* Verify has returned false on an event whose signature does not decode,
\* with a previous signature that is not empty.
C36_Witness ==
    /\ probe.stage = "verified" /\ ~probe.ok
    /\ ~asn1Unmarshal(probe.arg.Signature)
    /\ probe.prev # probe.arg.Signature
    /\ probe.forged.Signature = NoSignature

\* C37: a logEvent that found the Logger ready before Stop ran never sends
\* its draft on a listener that Stop has closed (a panic) or on the nil
\* listener that Stop has left (a send that blocks for ever).
C37_NoSendAfterStop ==
    \A i \in Ids : fate[i] \notin {"sendpanic", "stuck"}

\* C38: two documents whose first chain entry has a serial other than 0 and
\* that differ only in that entry's serial (still not 0), when, received,
\* level, actor, event or attributes get the same verdict from
\* VerifyCertification.
C38_FirstEntryFieldsIgnored ==
    probe.stage = "pairverified" => probe.ok = probe.okAlt

\* The chain of the events 1 and 2 has been accepted, and so
\* has the document whose first entry has another actor.
C38_Witness ==
    /\ probe.stage = "pairverified" /\ probe.ok /\ probe.okAlt
    /\ Len(probe.doc.chain) = 2
    /\ probe.doc.chain[1].Serial = 1 /\ probe.alt.chain[1].Serial = 1
    /\ probe.doc.chain[1].Actor # probe.alt.chain[1].Actor

\* C39: under a fair scheduler every Certify(start, end) called on a running
\* Logger returns: the Certify that holds the lock logs its certify event
\* without waiting for it, and the Certify that waits for it holds no lock.
C39_CertifyReturns ==
    (cert.pc \in {"waiting", "load", "locked"} /\ cpc = "running")
        ~> (cert.pc = "done")

\* The Certify that holds the lock has returned a document on a running
\* Logger while the worker has not yet processed its certify event.
C39_Witness ==
    /\ cert.pc = "done" /\ cert.locked /\ cert.err = NoErr
    /\ cpc = "running" /\ cert.id # 0
    /\ fate[cert.id] \in {"spawned", "queued", "dequeued"}
====
